---- MODULE Spec2Model ----
(***************************************************************************)
(* Model of the streaming engine of edge-tts (src/src/communicate.ts).     *)
(*                                                                         *)
(* A Communicate object owns `state` and `texts`.  Every call of stream()  *)
(* gives an async generator; the generators of one object are Gens.  The   *)
(* body of a generator runs only when its consumer asks for a value, and   *)
(* runs without interruption until it awaits a promise that is still       *)
(* pending, yields, returns or throws.  Socket events (open, message,      *)
(* error, close) run their handler to completion; the continuation of a    *)
(* settled promise is a later microtask (Resume), so further socket events *)
(* of the same burst may be handled before it.                             *)
(***************************************************************************)
EXTENDS Integers, Sequences, FiniteSets, TLC

\* ---------------------------------------------------------------- bounds
NumChunks == 2    \* largest number of text chunks of the object
MaxMsgs == 4      \* socket messages the service delivers during one run
NumGens == 2      \* MultiSpec: generators obtained from the one object
MultiMsgs == 2    \* MultiSpec: socket messages the service delivers
FrameMsgs == 3    \* FrameSpec: socket messages the service delivers
TokenMsgs == 2    \* TokenSpec: socket messages the service delivers
OrderMsgs == 3    \* OrderSpec: socket messages the service delivers
PathMsgs == 3     \* PathSpec: socket messages the service delivers
MaxChars == 4     \* SegmentSpec: characters of the text to split
MaxBytes == 4     \* SegmentSpec: largest byteLength asked for
MaxCut == 4       \* CodecSpec: bytes a message may lose at its end
MaxPieces == 2    \* XmlSpec: pieces the text is made of
MaxCorrections == 3  \* SkewSpec: calls of handleClientResponseError
MaxFeeds == 4     \* SubSpec: calls of SubMaker.feed
MaxSockets == 3   \* MsSpec: WebSockets an MsEdgeTTS object creates
MaxRequests == 2  \* MsSpec: requests made on an MsEdgeTTS object
MaxTicks == 2     \* TokenSpec: token windows the wall clock may advance by
NumFetches == 2   \* VoicesSpec: calls of listVoices
SkewSeconds == 5  \* VoicesSpec: a small lead of the server's clock, in seconds

\* ------------------------------------------------------ program constants
GuardGapTicks == 8750000
TokenWindowSeconds == 300

\* ------------------------------------------------------------ the frames
NoMeta == <<>>

Frame(isBinary, path, meta, len, headerLen, contentType, dataLen) ==
  [isBinary |-> isBinary, path |-> path, meta |-> meta, len |-> len,
   headerLen |-> headerLen, contentType |-> contentType, dataLen |-> dataLen]

TextFrame(path, meta) == Frame(FALSE, path, meta, 0, 0, "none", 0)

MetaItem(type, offset, duration) ==
  [Type |-> type, Offset |-> offset, Duration |-> duration]

\* Raw timing values the service reports (100 ns ticks).
Offsets == {0, 1000000}
Durations == {500000}
BoundaryTypes == {"WordBoundary"}

MetadataFrames ==
  {TextFrame("audio.metadata", <<MetaItem(t, o, d)>>) :
     t \in BoundaryTypes, o \in Offsets, d \in Durations}

\* A well-formed audio frame: 2-byte prefix, headers Path:audio and
\* Content-Type:audio/mpeg, one byte of payload.
AudioFrame == Frame(TRUE, "audio", NoMeta, 8, 4, "audio/mpeg", 1)
\* A binary message of one byte.
ShortBinaryFrame == Frame(TRUE, "none", NoMeta, 1, 0, "none", 0)

Frames ==
  {TextFrame("turn.start", NoMeta), TextFrame("turn.end", NoMeta),
   AudioFrame, ShortBinaryFrame} \cup MetadataFrames

\* Metadata frames of every shape: two boundary items, a sentence boundary,
\* session-end items only, an item of a type the client does not know, alone
\* and behind a boundary item.
WordItem(o) == MetaItem("WordBoundary", o, 500000)

MetadataShapes ==
  {<<WordItem(0)>>,
   <<WordItem(0), WordItem(1000000)>>,
   <<MetaItem("SentenceBoundary", 0, 500000)>>,
   <<MetaItem("SessionEnd", 0, 0)>>,
   <<MetaItem("Viseme", 0, 0)>>,
   <<WordItem(0), MetaItem("Viseme", 0, 0)>>}

\* Binary frames of every shape; the fields are what the 2-byte prefix and
\* the decoded headers of the message hold (lines 207-226).
LongHeaderFrame == Frame(TRUE, "audio", NoMeta, 4, 9, "audio/mpeg", 1)
NoTypeEmptyFrame == Frame(TRUE, "audio", NoMeta, 6, 4, "none", 0)
NoTypeDataFrame == Frame(TRUE, "audio", NoMeta, 7, 4, "none", 1)
OtherTypeFrame == Frame(TRUE, "audio", NoMeta, 8, 4, "audio/webm", 1)
EmptyAudioFrame == Frame(TRUE, "audio", NoMeta, 7, 4, "audio/mpeg", 0)

BinaryShapes ==
  {AudioFrame, ShortBinaryFrame, LongHeaderFrame, NoTypeEmptyFrame,
   NoTypeDataFrame, OtherTypeFrame, EmptyAudioFrame}

FrameShapes ==
  {TextFrame("turn.end", NoMeta)}
    \cup {TextFrame("audio.metadata", it) : it \in MetadataShapes}
    \cup BinaryShapes

\* Text frames of every path: the four the client names, a path it does not
\* know and a frame without a Path header; and a well-formed audio frame.
PathFrames ==
  {TextFrame("turn.start", NoMeta), TextFrame("response", NoMeta),
   TextFrame("other", NoMeta), TextFrame("none", NoMeta),
   TextFrame("turn.end", NoMeta),
   TextFrame("audio.metadata", <<WordItem(0)>>), AudioFrame}

\* Errors with which a WebSocket handshake can fail.
HandshakeErrors == {"Rejected403", "Rejected403NoDate", "ConnectError"}

\* ------------------------------------------------------------ the events
\* data: the length of an audio event's data
NoEvent == [type |-> "none", offset |-> 0, duration |-> 0, chunk |-> 0, data |-> 0]
IsBoundary(e) == e.type \in {"WordBoundary", "SentenceBoundary"}

VARIABLES
  texts,   \* this.texts: the chunks, each named by its position in the input
  state,   \* this.state
  gen,     \* per generator: its position and the locals of stream()/streamInternal()
  conns,   \* every WebSocket created so far, in creation order
  out,     \* per generator: the events handed to its consumer, in order
  nmsgs,   \* number of messages the service may still deliver in this run
  frames,  \* the messages the service may deliver in this run
  now,     \* Date.now() / 1000: the wall clock, in seconds
  clockSkewSeconds,  \* DRM.clockSkewSeconds, shared by the whole process
  codec,   \* CodecSpec: one message on its way through the decoder
  seg,     \* SegmentSpec: one call of splitTextByByteLength
  fetch,   \* every call of fetchVoicesInternal so far, in call order
  arrived, \* every message event a socket has emitted, in order of arrival
  xml,     \* XmlSpec: one text on its way through escapeXml and unescapeXml
  corrections, \* SkewSpec: every call of handleClientResponseError so far, in call order
  subMaker,    \* SubSpec: a SubMaker and the calls of feed made on it
  tts  \* MsSpec: an MsEdgeTTS object, its sockets and its requests

vars ==
  <<texts, state, gen, conns, out, nmsgs, frames, now, clockSkewSeconds, codec,
    seg, fetch, arrived, xml, corrections, subMaker, tts>>

\* What the engine reads but never writes.
world == <<frames, now, clockSkewSeconds, codec, seg, fetch, arrived, xml, corrections, subMaker, tts>>

\* pc: none | loop | done | failed; text, byteLength: the arguments; buffer:
\* what is left to split; chunks: what was yielded, each with the offset in
\* text at which the loop cut it off (tail: it is the rest after the loop)
NoSeg ==
  [pc |-> "none", text |-> <<>>, byteLength |-> 0, buffer |-> <<>>,
   chunks |-> <<>>, consumed |-> 0]

\* A SubMaker after its constructor.  type: "null" or the type of the
\* first event it accepted; cues: this.cues; fed: the calls of feed, each
\* with its argument, whether it threw, and the cues before and after it
NoSub == [type |-> "null", cues |-> <<>>, fed |-> <<>>]

\* An MsEdgeTTS object after its constructor.  ws: this._ws, the position
\* of the current socket in socks, 0 before setMetadata; socks: every
\* WebSocket created, each connecting | open | closed; streams: the
\* requests, named by their position.  Of a request, pc is waiting (its
\* _send awaits the open of socket `on`, in round i of the loop) | sent |
\* failed; conn: the socket it was sent on; ended: null was pushed on its
\* audio stream; by: what pushed it first
NoTts == [ws |-> 0, socks |-> <<>>, streams |-> <<>>]

\* pc: none | given | escaped | unescaped; text: the caller's text, a
\* sequence of characters; escaped: escapeXml(text); result:
\* unescapeXml(escaped)
NoXml == [pc |-> "none", text |-> <<>>, escaped |-> <<>>, result |-> <<>>]

\* stage: none | built | decoded; form: text | binary; headers, body: what
\* the sender put into the message; raw: its bytes; cut: bytes were lost at
\* its end; result: what the decoder returned
NoCodec ==
  [stage |-> "none", form |-> "text", headers |-> <<>>, body |-> <<>>,
   raw |-> <<>>, cut |-> FALSE,
   result |-> [ok |-> FALSE, headers |-> <<>>, data |-> <<>>]]

\* ---------------------------------------------------------------------- DRM
\* Faulty variant: the wall clock is read without the skew.
getWallClock == now

getUnixTimestamp == now + clockSkewSeconds

\* WIN_EPOCH is 11644473600 seconds, which is 38814912 windows of 300
\* seconds.  The tick counts of generateSecMsGec exceed the integers of the
\* model checker, so a time is kept as whole windows plus seconds, and a
\* count of 100-nanosecond intervals as billions plus a rest below 10^9:
\* its decimal string is the digits of billions followed by the nine
\* digits of rest.
WIN_EPOCH == [windows |-> 38814912, seconds |-> 0]

\* ticks += WIN_EPOCH
AddEpoch(t) ==
  LET s == WIN_EPOCH.seconds + (t % TokenWindowSeconds)
  IN  [windows |-> WIN_EPOCH.windows + (t \div TokenWindowSeconds)
                     + (s \div TokenWindowSeconds),
       seconds |-> s % TokenWindowSeconds]

\* Faulty variant: the time is not rounded down to its window.
RoundDownNothing(ticks) == ticks

\* ticks -= ticks % 300
RoundDown(ticks) == [ticks EXCEPT !.seconds = 0]

\* ticks *= 10_000_000: one window is 3 * 10^9 intervals, one second 10^7.
ToIntervals(ticks) ==
  [billions |-> 3 * ticks.windows + (ticks.seconds \div 100),
   rest |-> (ticks.seconds % 100) * 10000000]

\* The string that is hashed: the decimal tick count followed by the fixed
\* client token.  SHA-256 is taken to be injective, so a token is named by
\* the string it is the hash of.
TokenAt(t) ==
  [ticks |-> ToIntervals(RoundDown(AddEpoch(t))),
   secret |-> "TRUSTED_CLIENT_TOKEN"]

generateSecMsGec == TokenAt(getUnixTimestamp)

\* The Date headers a rejecting server may send: its clock agrees with the
\* wall clock or is one token window ahead of it.
ServerDates == {now, now + TokenWindowSeconds}

NewGen ==
  [pc |-> "start", err |-> "none", chunk |-> 0, retryCount |-> 0, ws |-> 0,
   queue |-> <<>>, resolveNext |-> FALSE, errorNext |-> FALSE,
   promise |-> "none", closed |-> FALSE, audioWasReceived |-> FALSE,
   pending |-> NoEvent, cancelAt |-> -1, connectUrl |-> -1]

\* socket: connecting | open | errored | closed (by the peer) | shut (ws.close())
\* endedBy: how the receive loop on this socket ended: none | turn.end | closed
\* errored: an error event was emitted on the open socket
\* recv: the messages the receive loop has taken from its queue
\* sent: the requests sent on it, each [path, text]
\* token: the Sec-MS-GEC parameter of the URL it was created with
\* createdAt: DRM.getUnixTimestamp() when it was created
NewConn(g, k, url) ==
  [gen |-> g, chunk |-> k, socket |-> "connecting", sent |-> <<>>,
   endedBy |-> "none", errored |-> FALSE, recv |-> <<>>,
   token |-> url, createdAt |-> getUnixTimestamp]

\* The object after its constructor (lines 57-68), with ngens generators
\* obtained from stream() and none of them started.
InitFrom(ngens, msgs, alphabet) ==
  /\ texts \in {[i \in 1..n |-> i] : n \in 0..NumChunks}
  /\ state = [partialText |-> 0, offsetCompensation |-> 0,
              lastDurationOffset |-> 0, streamWasCalled |-> FALSE]
  /\ gen = [g \in 1..ngens |-> NewGen]
  /\ conns = <<>>
  /\ out = [g \in 1..ngens |-> <<>>]
  /\ nmsgs = msgs
  /\ frames = alphabet
  /\ now = 0
  /\ clockSkewSeconds = 0
  /\ codec = NoCodec
  /\ seg = NoSeg
  /\ fetch = <<>>
  /\ arrived = <<>>
  /\ xml = NoXml
  /\ corrections = <<>>
  /\ subMaker = NoSub
  /\ tts = NoTts
  /\ subMaker = NoSub

InitWith(ngens, msgs) == InitFrom(ngens, msgs, Frames)

Init == InitWith(1, MaxMsgs)

MultiInit == InitWith(NumGens, MultiMsgs)

Gens == DOMAIN gen

\* ------------------------------------------------- Communicate.parseMetadata
CompensatedOffset(raw, oc) == raw + oc

RECURSIVE parseMetadata(_, _)
parseMetadata(items, oc) ==
  IF items = <<>>
  THEN [ok |-> FALSE, err |-> "UnexpectedResponse", evt |-> NoEvent]
  ELSE LET metaObj == Head(items) IN
       IF metaObj.Type \in {"WordBoundary", "SentenceBoundary"}
       THEN [ok |-> TRUE, err |-> "none",
             evt |-> [type |-> metaObj.Type,
                      offset |-> CompensatedOffset(metaObj.Offset, oc),
                      duration |-> metaObj.Duration, chunk |-> 0, data |-> 0]]
       ELSE IF metaObj.Type = "SessionEnd"
       THEN parseMetadata(Tail(items), oc)
       ELSE [ok |-> FALSE, err |-> "UnknownResponse", evt |-> NoEvent]

\* ------------------------------------- Communicate.streamInternal: the loop
\* Faulty variant: the guard gap is forgotten.
TurnEndCompensationNoGap(ldo) == ldo

TurnEndCompensation(ldo) == ldo + GuardGapTicks

LastDurationOffset(meta) == meta.offset + meta.duration

\* Faulty variant: the check after the loop is dropped.
NoAudioNever(audioWasReceived) == FALSE

NoAudio(audioWasReceived) == ~audioWasReceived

\* The loop works on L = [queue, closed, audio, oc, ldo, seen] (seen: the
\* messages taken from the queue so far on this socket) and stops with
\* exit = await (queue empty, socket not closed), yield (evt), throw (err) or
\* end (the while loop is left; endedBy says how).
Stop(L, exit, evt, err, endedBy) ==
  [queue |-> L.queue, closed |-> L.closed, audio |-> L.audio, oc |-> L.oc,
   ldo |-> L.ldo, seen |-> L.seen,
   exit |-> exit, evt |-> evt, err |-> err, endedBy |-> endedBy]

Throw(L, err) == Stop(L, "throw", NoEvent, err, "none")

\* The checks of the 2-byte prefix (lines 207 and 214).
BinaryTooShort(len) == len < 2

\* Faulty variant: a header length beyond the message is let through.
HeaderTooLongNever(headerLen, len) == FALSE

HeaderTooLong(headerLen, len) == headerLen > len

\* Faulty variant: audio of no bytes is let through.
EmptyAudioNever(dataLen) == FALSE

\* The last check before an audio event (line 242).
EmptyAudio(dataLen) == dataLen = 0

\* Faulty variant: a path that is neither response nor turn.start fails
\* the stream.
UnknownPathThrowsStrict(path) == path \notin {"response", "turn.start"}

\* The last branch of the text frames (lines 199-202): its throw is
\* commented out, so no path fails the stream.
UnknownPathThrows(path) == FALSE

RECURSIVE RunLoop(_)
\* One message taken from the queue (lines 180-248).
ProcessMessage(m, L) ==
  IF ~m.isBinary
  THEN IF m.path = "audio.metadata"
       THEN LET r == parseMetadata(m.meta, L.oc) IN
            IF r.ok THEN Stop(L, "yield", r.evt, "none", "none")
            ELSE Throw(L, r.err)
       ELSE IF m.path = "turn.end"
       THEN Stop([L EXCEPT !.oc = TurnEndCompensation(L.ldo)],
                 "end", NoEvent, "none", "turn.end")
       ELSE IF UnknownPathThrows(m.path) THEN Throw(L, "UnknownResponse")
       ELSE RunLoop(L)
  ELSE IF BinaryTooShort(m.len) THEN Throw(L, "UnexpectedResponse")
       ELSE IF HeaderTooLong(m.headerLen, m.len) THEN Throw(L, "UnexpectedResponse")
       ELSE IF m.path # "audio" THEN Throw(L, "UnexpectedResponse")
       ELSE IF m.contentType = "none" /\ m.dataLen = 0 THEN RunLoop(L)
       ELSE IF m.contentType # "audio/mpeg" /\ m.contentType # "none"
       THEN Throw(L, "UnexpectedResponse")
       ELSE IF m.contentType = "none" /\ m.dataLen > 0
       THEN Throw(L, "UnexpectedResponse")
       ELSE IF EmptyAudio(m.dataLen) THEN Throw(L, "UnexpectedResponse")
       ELSE Stop([L EXCEPT !.audio = TRUE], "yield",
                 [type |-> "audio", offset |-> 0, duration |-> 0, chunk |-> 0,
                  data |-> m.dataLen],
                 "none", "none")

\* while (!closed || messageQueue.length > 0), from the loop test (line 171).
RunLoop(L) ==
  IF L.closed /\ L.queue = <<>>
  THEN Stop(L, "end", NoEvent, "none", "closed")
  ELSE IF L.queue = <<>>
  THEN Stop(L, "await", NoEvent, "none", "none")
  ELSE ProcessMessage(Head(L.queue),
                      [L EXCEPT !.queue = Tail(L.queue),
                                !.seen = Append(L.seen, Head(L.queue))])

\* The loop from the statement after the await (line 177).
AfterAwait(L) ==
  IF L.closed /\ L.queue = <<>>
  THEN Stop(L, "end", NoEvent, "none", "closed")
  ELSE IF L.queue = <<>>
  THEN Throw(L, "TypeError")
  ELSE ProcessMessage(Head(L.queue),
                      [L EXCEPT !.queue = Tail(L.queue),
                                !.seen = Append(L.seen, Head(L.queue))])

LoopState(b) ==
  [queue |-> b.g.queue, closed |-> b.g.closed, audio |-> b.g.audioWasReceived,
   oc |-> b.st.offsetCompensation, ldo |-> b.st.lastDurationOffset,
   seen |-> b.cn[b.g.ws].recv]

\* ------------------------------------------------------ Communicate.stream
\* Faulty variant: the one-shot guard is not consulted.
AlreadyConsumedNever(streamWasCalled) == FALSE

AlreadyConsumed(streamWasCalled) == streamWasCalled

\* Faulty variant: partialText is never advanced past the first chunk.
PartialTextFirst(k) == texts[1]

PartialText(k) == texts[k]

\* A generator that has ended: its locals are gone.
Ended(gr, pc, err) ==
  [NewGen EXCEPT !.pc = pc, !.err = err, !.chunk = gr.chunk, !.ws = gr.ws,
                 !.retryCount = gr.retryCount, !.cancelAt = gr.cancelAt,
                 !.connectUrl = gr.connectUrl]

\* Faulty variant: a stream that reaches its end reports that no audio was
\* received.
ReturnNoAudio(gr) == Ended(gr, "failed", "NoAudioReceived")

\* The end of the body of stream() (line 324): the generator returns.
Return(gr) == Ended(gr, "done", "none")

\* A step of a generator g is computed on a bundle b = [g, st, cn, o] of the
\* generator's record, the object state, the sockets and g's events.
\* One iteration of `for (const textChunk of this.texts)` up to the await of
\* the open event (lines 276-293); past the last chunk the generator returns.
\* The locals of the previous chunk's streamInternal are gone.
StartChunk(b, g, k) ==
  IF k > Len(texts)
  THEN [b EXCEPT !.g = Return(b.g)]
  ELSE [b EXCEPT !.st.partialText = PartialText(k),
                 !.cn = Append(b.cn, NewConn(g, k, b.g.connectUrl)),
                 !.g = [NewGen EXCEPT !.pc = "connecting", !.chunk = k,
                                      !.retryCount = 0, !.ws = Len(b.cn) + 1,
                                      !.cancelAt = b.g.cancelAt,
                                      !.connectUrl = b.g.connectUrl]]

Fail(b, err) == [b EXCEPT !.g = Ended(b.g, "failed", err)]

\* What control does with the loop's result L (lines 171-254 and 297-302).
Apply(b, g, L) ==
  LET b1 == [b EXCEPT !.g.queue = L.queue, !.g.closed = L.closed,
                      !.g.audioWasReceived = L.audio,
                      !.st.offsetCompensation = L.oc,
                      !.st.lastDurationOffset = L.ldo,
                      !.cn[b.g.ws].recv = L.seen]
      evt == [L.evt EXCEPT !.chunk = b.g.chunk]
  IN CASE L.exit = "await" ->
            [b1 EXCEPT !.g.pc = "awaitMsg", !.g.promise = "pending",
                       !.g.resolveNext = TRUE, !.g.errorNext = TRUE]
       [] L.exit = "yield" ->
            \* a return() queued behind the pending next() is served right
            \* after the value is delivered
            IF b.g.cancelAt >= 0
            THEN [b1 EXCEPT !.o = Append(b.o, evt),
                            !.g = Ended(b.g, "returned", "none")]
            ELSE [b1 EXCEPT !.o = Append(b.o, evt),
                            !.g.pc = "yielded", !.g.pending = evt]
       [] L.exit = "throw" -> Fail(b1, L.err)
       [] L.exit = "end" ->
            LET b2 == [b1 EXCEPT !.cn[b.g.ws].endedBy = L.endedBy] IN
            IF NoAudio(L.audio)
            THEN Fail(b2, "NoAudioReceived")
            ELSE StartChunk([b2 EXCEPT !.cn[b.g.ws].socket = "shut"],
                            g, b.g.chunk + 1)

\* The two requests (lines 107-138); of their content the model keeps the
\* Path header and the text put into the SSML.
sendCommandRequest == [path |-> "speech.config", text |-> 0]

sendSsmlRequest(partialText) == [path |-> "ssml", text |-> partialText]

\* Faulty variant: the SSML request is sent before the configuration.
SendRequestsReversed(partialText) ==
  <<sendSsmlRequest(partialText), sendCommandRequest>>

\* The two calls at the start of streamInternal (lines 140-141).
SendRequests(partialText) ==
  <<sendCommandRequest, sendSsmlRequest(partialText)>>

\* Faulty variant: the catch block swallows the error and the generator
\* returns.
CatchBlockSwallow(b, e) == [b EXCEPT !.g = Ended(b.g, "done", "none")]

\* The catch block of the connection loop (lines 303-322): both branches
\* rethrow the error, so the stream fails with it.
CatchBlock(b, e) ==
  IF e = "Rejected403" /\ b.g.retryCount = 0
  THEN Fail(b, e)
  ELSE Fail(b, e)

\* streamInternal up to its first suspension (lines 103-178): the two
\* requests are sent, the handlers are registered, the loop starts.
OnOpen(b, g) ==
  LET w == b.g.ws
      b1 == [b EXCEPT !.cn[w].socket = "open",
                      !.cn[w].sent = SendRequests(b.st.partialText),
                      !.g.audioWasReceived = FALSE, !.g.queue = <<>>,
                      !.g.resolveNext = FALSE, !.g.errorNext = FALSE,
                      !.g.closed = FALSE, !.g.promise = "none"]
  IN Apply(b1, g, RunLoop(LoopState(b1)))

Bundle(g) == [g |-> gen[g], st |-> state, cn |-> conns, o |-> out[g]]

Commit(g, b) ==
  /\ gen' = [gen EXCEPT ![g] = b.g]
  /\ state' = b.st
  /\ conns' = b.cn
  /\ out' = [out EXCEPT ![g] = b.o]

Live(g) == gen[g].pc \in {"connecting", "awaitMsg", "resumable", "yielded"}

\* ------------------------------------------------------- consumer actions
\* The first next(): the body of stream() starts (lines 257-293).
ConsumerStart(g) ==
  /\ gen[g].pc = "start"
  /\ IF AlreadyConsumed(state.streamWasCalled)
     THEN Commit(g, Fail(Bundle(g), "AlreadyConsumed"))
     ELSE Commit(g, StartChunk([Bundle(g) EXCEPT
                                  !.st.streamWasCalled = TRUE,
                                  !.g.connectUrl = generateSecMsGec], g, 1))
  /\ UNCHANGED <<texts, nmsgs, world>>

\* next() on a generator suspended at a yield: streamInternal goes on after
\* its yield (lines 192-194 or 247) and round the loop.
ConsumerNext(g) ==
  /\ gen[g].pc = "yielded"
  /\ LET e == gen[g].pending
         b == Bundle(g)
         b1 == IF IsBoundary(e)
               THEN [b EXCEPT !.st.lastDurationOffset = LastDurationOffset(e)]
               ELSE b
         b2 == [b1 EXCEPT !.g.pending = NoEvent]
     IN Commit(g, Apply(b2, g, RunLoop(LoopState(b2))))
  /\ UNCHANGED <<texts, nmsgs, world>>

\* return() on the generator, the only way a caller can ask it to stop.  On a
\* generator that has not started or is suspended at a yield it completes the
\* generator at once (stream() has no finally block); on a generator that is
\* awaiting it is queued until the generator yields or ends.  cancelAt
\* records how many events had been handed over when return() was queued.
ConsumerReturn(g) ==
  /\ \/ /\ gen[g].pc \in {"start", "yielded"}
        /\ gen' = [gen EXCEPT ![g] = Ended(gen[g], "returned", "none")]
     \/ /\ gen[g].pc \in {"connecting", "awaitMsg"}
        /\ gen[g].cancelAt < 0
        /\ gen' = [gen EXCEPT ![g].cancelAt = Len(out[g])]
  /\ UNCHANGED <<texts, state, conns, out, nmsgs, world>>

\* ---------------------------------------------------------- socket events
\* 'open': the promise of line 290 resolves and stream() goes on.
SocketOpen(g) ==
  /\ gen[g].pc = "connecting"
  /\ Commit(g, OnOpen(Bundle(g), g))
  /\ UNCHANGED <<texts, nmsgs, world>>

\* 'error' before 'open': the promise of line 290 rejects, the catch block
\* decides (lines 303-322).
SocketConnectError(g, e) ==
  /\ gen[g].pc = "connecting"
  /\ Commit(g, CatchBlock([Bundle(g) EXCEPT !.cn[gen[g].ws].socket = "closed"], e))
  /\ UNCHANGED <<texts, nmsgs, world>>

\* Faulty variant: the message is put at the front of the queue.
unshift(messageQueue, m) == <<m>> \o messageQueue

\* messageQueue.push (line 153)
push(messageQueue, m) == Append(messageQueue, m)

\* 'message' handler (lines 151-158).
SocketMessage(g, m) ==
  /\ Live(g) /\ gen[g].pc # "connecting"
  /\ conns[gen[g].ws].socket = "open"
  /\ nmsgs > 0
  /\ nmsgs' = nmsgs - 1
  /\ conns' = conns
  /\ arrived' = Append(arrived, [conn |-> gen[g].ws, msg |-> m])
  /\ IF gen[g].closed
     THEN gen' = gen
     ELSE gen' = [gen EXCEPT
            ![g].queue = push(@, m),
            ![g].promise = IF gen[g].resolveNext /\ @ = "pending" THEN "fulfilled" ELSE @,
            ![g].pc = IF gen[g].resolveNext /\ gen[g].promise = "pending"
                      THEN "resumable" ELSE @,
            ![g].resolveNext = FALSE]
  /\ UNCHANGED <<texts, state, out, frames, now, clockSkewSeconds, codec, seg, fetch, xml, corrections, subMaker, tts>>

\* 'error' handler (lines 160-164).
SocketError(g) ==
  /\ Live(g) /\ gen[g].pc # "connecting"
  /\ conns[gen[g].ws].socket = "open"
  /\ conns' = [conns EXCEPT ![gen[g].ws].socket = "errored",
                            ![gen[g].ws].errored = TRUE]
  /\ IF gen[g].closed
     THEN gen' = gen
     ELSE gen' = [gen EXCEPT
            ![g].promise = IF gen[g].errorNext /\ @ = "pending" THEN "rejected" ELSE @,
            ![g].pc = IF gen[g].errorNext /\ gen[g].promise = "pending"
                      THEN "resumable" ELSE @,
            ![g].closed = TRUE]
  /\ UNCHANGED <<texts, state, out, nmsgs, world>>

\* 'close' handler (lines 166-169).
SocketClose(g) ==
  /\ Live(g) /\ gen[g].pc # "connecting"
  /\ conns[gen[g].ws].socket \in {"open", "errored"}
  /\ conns' = [conns EXCEPT ![gen[g].ws].socket = "closed"]
  /\ gen' = [gen EXCEPT
        ![g].closed = TRUE,
        ![g].promise = IF gen[g].resolveNext /\ @ = "pending" THEN "fulfilled" ELSE @,
        ![g].pc = IF gen[g].resolveNext /\ gen[g].promise = "pending"
                  THEN "resumable" ELSE @]
  /\ UNCHANGED <<texts, state, out, nmsgs, world>>

\* The continuation of the await of lines 173-176 once its promise is settled.
Resume(g) ==
  /\ gen[g].pc = "resumable"
  /\ IF gen[g].promise = "rejected"
     THEN Commit(g, Fail(Bundle(g), "SocketError"))
     ELSE Commit(g, Apply(Bundle(g), g, AfterAwait(LoopState(Bundle(g)))))
  /\ UNCHANGED <<texts, nmsgs, world>>

Next ==
  \/ \E g \in Gens : ConsumerStart(g)
  \/ \E g \in Gens : ConsumerNext(g)
  \/ \E g \in Gens : ConsumerReturn(g)
  \/ \E g \in Gens : SocketOpen(g)
  \/ \E g \in Gens, e \in HandshakeErrors : SocketConnectError(g, e)
  \/ \E g \in Gens, m \in frames : SocketMessage(g, m)
  \/ \E g \in Gens : SocketError(g)
  \/ \E g \in Gens : SocketClose(g)
  \/ \E g \in Gens : Resume(g)

Spec == Init /\ [][Next]_vars

\* Several generators of the same object, driven in any interleaving.
MultiSpec == MultiInit /\ [][Next]_vars

\* What the scheduling guarantees: a settled promise's continuation runs, and
\* a consumer iterating with for-await asks for the next value.  The service
\* owes nothing: it may never answer.
FairSpec ==
  /\ Spec
  /\ WF_vars(\E g \in Gens : Resume(g))
  /\ WF_vars(\E g \in Gens : ConsumerNext(g))

\* ------------------------------------------------------- clock and skew
\* Time passes: the wall clock reaches the next token window.
Tick ==
  /\ now < MaxTicks * TokenWindowSeconds
  /\ now' = now + TokenWindowSeconds
  /\ UNCHANGED <<texts, state, gen, conns, out, nmsgs, frames, clockSkewSeconds, codec, seg, fetch, arrived, xml, corrections, subMaker, tts>>

\* DRM.adjustClockSkewSeconds: the new value of clockSkewSeconds.
\* Faulty variant: the difference replaces the skew instead of adding to it.
setClockSkewSeconds(skew, skewSeconds) == skewSeconds

adjustClockSkewSeconds(skew, skewSeconds) == skew + skewSeconds

\* DRM.handleClientResponseError, called by another request of the process
\* (the voice list fetch) that was rejected with a Date header.
handleClientResponseError(serverDate) ==
  /\ clockSkewSeconds' =
       adjustClockSkewSeconds(clockSkewSeconds, serverDate - getUnixTimestamp)
  /\ UNCHANGED <<texts, state, gen, conns, out, nmsgs, frames, now, codec, seg, fetch, arrived, xml, corrections, subMaker, tts>>

TokenInit == InitFrom(1, TokenMsgs, Frames)

TokenNext ==
  \/ Next
  \/ Tick
  \/ \E d \in ServerDates : handleClientResponseError(d)

\* The engine while the clock runs and the skew is corrected behind its back.
TokenSpec == TokenInit /\ [][TokenNext]_vars

\* ------------------------------------------------------------ voice list
\* The value of the Date header of a response, as handleClientResponseError
\* finds it: absent, not a string, a string Date.parse rejects, or a date
\* (value: seconds since 1970).
NoDate == [kind |-> "absent", value |-> 0]

\* The Date headers a response may carry.  The server's clock agrees with
\* the wall clock, or is a few seconds or one token window ahead of it.
DateHeaders ==
  {NoDate, [kind |-> "number", value |-> 0], [kind |-> "garbage", value |-> 0]}
    \cup {[kind |-> "date", value |-> d] : d \in ServerDates \cup {now + SkewSeconds}}

\* The status codes a response may carry.
Statuses == {200, 403, 404, 500}

\* !serverDate || typeof serverDate !== "string"
NoServerDate(serverDate) == serverDate.kind \in {"absent", "number"}

\* DRM.parseRFC2616Date: null, or the seconds since 1970.
parseRFC2616Date(dateStr) ==
  IF dateStr.kind = "date"
    THEN [null |-> FALSE, seconds |-> dateStr.value]
    ELSE [null |-> TRUE, seconds |-> 0]

\* Faulty variant: a date that did not parse is used all the same.
IsNullNever(serverDateParsed) == FALSE

\* serverDateParsed === null
IsNull(serverDateParsed) == serverDateParsed.null

\* DRM.handleClientResponseError as a function: whether it threw, and the
\* clock skew it leaves behind.
ClientResponseError(serverDate) ==
  LET serverDateParsed == parseRFC2616Date(serverDate) IN
  IF NoServerDate(serverDate) \/ IsNull(serverDateParsed)
    THEN [threw |-> TRUE, skew |-> clockSkewSeconds]
    ELSE [threw |-> FALSE,
          skew |-> adjustClockSkewSeconds(clockSkewSeconds,
                     serverDateParsed.seconds - getUnixTimestamp)]

\* validateStatus of the first request: below 500 the response is returned.
validateStatus(status) == status < 500

\* The second request has no validateStatus: axios rejects all but 2xx.
validateStatusDefault(status) == status >= 200 /\ status < 300

\* Faulty variant: every client error is answered with a retry.
IsRejectedAny(status) == status >= 400

\* response.status === 403
IsRejected(status) == status = 403

\* The Date headers that make a difference: the headers are read only when
\* the response is a rejection.
HeadersRead(status) == IF IsRejected(status) THEN DateHeaders ELSE {NoDate}

\* A request as it leaves: the token in its URL, the corrected time and the
\* wall clock when the URL was built, and the skew in force.
Request(skew) ==
  [token |-> TokenAt(now + skew), at |-> now + skew, wall |-> now,
   skew |-> skew]

\* pc: await1 | await2 (waiting for the first, the second response) |
\* done | failed; requests: the requests made; responses: the responses
\* received, each with the wall clock and the skew before and after it was
\* handled; err: the error the promise was rejected with
NewFetch ==
  [pc |-> "await1", requests |-> <<Request(clockSkewSeconds)>>,
   responses |-> <<>>, err |-> "none"]

Response(status, date, skewAfter) ==
  [status |-> status, date |-> date, wall |-> now,
   skewBefore |-> clockSkewSeconds, skewAfter |-> skewAfter]

\* listVoices is called: fetchVoicesInternal runs to its first await.  The
\* caller awaits each call before it makes the next.
FetchStart ==
  /\ Len(fetch) < NumFetches
  /\ \A f \in DOMAIN fetch : fetch[f].pc \in {"done", "failed"}
  /\ fetch' = Append(fetch, NewFetch)
  /\ UNCHANGED <<texts, state, gen, conns, out, nmsgs, frames, now, clockSkewSeconds, codec, seg, arrived, xml, corrections, subMaker, tts>>

\* The first response arrives: fetchVoicesInternal runs from line 24 to its
\* second await, its return or its throw.
FetchResponse(f, status, date) ==
  /\ fetch[f].pc = "await1"
  /\ LET r == ClientResponseError(date)
         skew == IF validateStatus(status) /\ IsRejected(status)
                   THEN r.skew ELSE clockSkewSeconds
         after ==
           IF ~validateStatus(status)
             THEN [pc |-> "failed", err |-> "AxiosError", retry |-> FALSE]
           ELSE IF IsRejected(status)
             THEN IF r.threw
                    THEN [pc |-> "failed", err |-> "SkewAdjustmentError",
                          retry |-> FALSE]
                    ELSE [pc |-> "await2", err |-> "none", retry |-> TRUE]
           ELSE IF status >= 400
             THEN [pc |-> "failed", err |-> "Error", retry |-> FALSE]
           ELSE [pc |-> "done", err |-> "none", retry |-> FALSE]
     IN  /\ clockSkewSeconds' = skew
         /\ fetch' = [fetch EXCEPT ![f] =
              [pc |-> after.pc, err |-> after.err,
               requests |-> IF after.retry
                              THEN Append(@.requests, Request(skew))
                              ELSE @.requests,
               responses |-> Append(@.responses, Response(status, date, skew))]]
  /\ UNCHANGED <<texts, state, gen, conns, out, nmsgs, frames, now, codec, seg, arrived, xml, corrections, subMaker, tts>>

\* The response to the retry arrives: its data is returned, or axios
\* rejects and the rejection is the caller's.  Its headers are not read.
FetchRetryResponse(f, status) ==
  /\ fetch[f].pc = "await2"
  /\ fetch' = [fetch EXCEPT ![f] =
       [@ EXCEPT !.pc = IF validateStatusDefault(status) THEN "done" ELSE "failed",
                 !.err = IF validateStatusDefault(status) THEN "none" ELSE "AxiosError",
                 !.responses = Append(@, Response(status, NoDate, clockSkewSeconds))]]
  /\ UNCHANGED <<texts, state, gen, conns, out, nmsgs, frames, now, clockSkewSeconds, codec, seg, arrived, xml, corrections, subMaker, tts>>

\* A request gets no response at all: axios rejects.
FetchNetworkError(f) ==
  /\ fetch[f].pc \in {"await1", "await2"}
  /\ fetch' = [fetch EXCEPT ![f] = [@ EXCEPT !.pc = "failed", !.err = "AxiosError"]]
  /\ UNCHANGED <<texts, state, gen, conns, out, nmsgs, frames, now, clockSkewSeconds, codec, seg, arrived, xml, corrections, subMaker, tts>>

VoicesInit == InitFrom(0, 0, {}) /\ texts = <<>>

VoicesNext ==
  \/ FetchStart
  \/ \E f \in DOMAIN fetch :
       /\ fetch[f].pc = "await1"
       /\ \E status \in Statuses :
            \E date \in HeadersRead(status) : FetchResponse(f, status, date)
  \/ \E f \in DOMAIN fetch :
       /\ fetch[f].pc = "await2"
       /\ \E status \in Statuses : FetchRetryResponse(f, status)
  \/ \E f \in DOMAIN fetch : FetchNetworkError(f)
  \/ Tick

\* Calls of listVoices while the clock runs.
VoicesSpec == VoicesInit /\ [][VoicesNext]_vars

\* ------------------------------------------------------------------ skew
\* A response with Date header serverDate is rejected and its receiver,
\* whichever session or request it is, calls handleClientResponseError: the
\* call runs to its end before any other code does.
SkewCorrect(serverDate) ==
  /\ Len(corrections) < MaxCorrections
  /\ LET r == ClientResponseError(serverDate)
     IN  /\ clockSkewSeconds' = r.skew
         /\ corrections' = Append(corrections,
              [date |-> serverDate, local |-> now, threw |-> r.threw,
               skewBefore |-> clockSkewSeconds, skewAfter |-> r.skew])
  /\ UNCHANGED <<texts, state, gen, conns, out, nmsgs, frames, now, codec, seg, fetch, arrived, xml, subMaker, tts>>

SkewInit == InitFrom(0, 0, {}) /\ texts = <<>>

SkewNext ==
  \/ \E serverDate \in DateHeaders : SkewCorrect(serverDate)
  \/ Tick

\* Skew corrections in any order while the clock runs.
SkewSpec == SkewInit /\ [][SkewNext]_vars

\* One generator and a service that delivers a few messages only.
OrderInit == InitFrom(1, OrderMsgs, Frames)

OrderSpec == OrderInit /\ [][Next]_vars

\* The engine fed with text frames of every path.
PathInit == InitFrom(1, PathMsgs, PathFrames)

PathSpec == PathInit /\ [][Next]_vars

\* The engine fed with frames of every shape.
FrameInit == InitFrom(1, FrameMsgs, FrameShapes)

FrameSpec == FrameInit /\ [][Next]_vars

\* ------------------------------------------------------- the frame decoder
\* Byte strings are sequences of byte values; the model keeps to ASCII.
CRLF == <<13, 10>>
Colon == <<58>>
Whitespace == {9, 10, 11, 12, 13, 32}

Min(a, b) == IF a < b THEN a ELSE b

\* Buffer.subarray(start, end): a negative index counts from the end, an
\* index beyond the buffer is clamped.
ClampIndex(i, len) == IF i < 0 THEN (IF len + i < 0 THEN 0 ELSE len + i) ELSE Min(i, len)

subarray(data, start, end) ==
  SubSeq(data, ClampIndex(start, Len(data)) + 1, ClampIndex(end, Len(data)))

StartsWith(data, pat) ==
  Len(data) >= Len(pat) /\ SubSeq(data, 1, Len(pat)) = pat

\* Buffer.indexOf / String.indexOf: the 0-based position of the first
\* occurrence, -1 if there is none.
RECURSIVE indexOf(_, _)
indexOf(data, pat) ==
  IF Len(data) < Len(pat) THEN -1
  ELSE IF StartsWith(data, pat) THEN 0
  ELSE LET r == indexOf(Tail(data), pat) IN IF r < 0 THEN -1 ELSE r + 1

\* String.split(separator): the pieces between the separators; a string
\* without the separator is one piece.
RECURSIVE split(_, _)
split(str, sep) ==
  LET i == indexOf(str, sep) IN
  IF i < 0 THEN <<str>>
  ELSE <<SubSeq(str, 1, i)>> \o split(SubSeq(str, i + Len(sep) + 1, Len(str)), sep)

\* String.split(separator, limit): the first `limit` pieces; the rest of the
\* string is dropped.
splitLimit(str, sep, limit) ==
  LET pieces == split(str, sep) IN SubSeq(pieces, 1, Min(limit, Len(pieces)))

RECURSIVE trimStart(_)
trimStart(str) ==
  IF str # <<>> /\ Head(str) \in Whitespace THEN trimStart(Tail(str)) ELSE str

RECURSIVE trimEnd(_)
trimEnd(str) ==
  IF str # <<>> /\ str[Len(str)] \in Whitespace
  THEN trimEnd(SubSeq(str, 1, Len(str) - 1)) ELSE str

trim(str) == trimEnd(trimStart(str))

\* headersObj[key] = value
Put(h, key, value) ==
  [k \in DOMAIN h \cup {key} |-> IF k = key THEN value ELSE h[k]]

NoHeaders == [k \in {} |-> <<>>]

\* The loop over the header lines (utils.ts lines 156-161).
RECURSIVE ParseLines(_, _)
ParseLines(lines, h) ==
  IF lines = <<>> THEN h
  ELSE LET parts == splitLimit(Head(lines), Colon, 2)
           key == parts[1]
           hasValue == Len(parts) >= 2 /\ parts[2] # <<>>
       IN ParseLines(Tail(lines),
                     IF key # <<>> /\ hasValue
                     THEN Put(h, trim(key), trim(parts[2])) ELSE h)

getHeadersAndData(data, headerLength) ==
  LET headerBytes == subarray(data, 0, headerLength)
      rest == subarray(data, headerLength + 2, Len(data))
  IN [headers |-> ParseLines(split(headerBytes, CRLF), NoHeaders), data |-> rest]

readUInt16BE(buf) == buf[1] * 256 + buf[2]

\* What the loop decodes of a text message (communicate.ts lines 184-186).
DecodeTextMessage(textData) ==
  LET separator == indexOf(textData, CRLF \o CRLF)
      r == getHeadersAndData(textData, separator)
  IN [ok |-> TRUE, headers |-> r.headers, data |-> r.data]

DecodeFailure == [ok |-> FALSE, headers |-> NoHeaders, data |-> <<>>]

\* What the loop decodes of a binary message (lines 206-220).
DecodeBinaryMessage(buf) ==
  IF Len(buf) < 2 THEN DecodeFailure
  ELSE IF readUInt16BE(buf) > Len(buf) THEN DecodeFailure
  ELSE LET r == getHeadersAndData(buf, readUInt16BE(buf))
       IN [ok |-> TRUE, headers |-> r.headers, data |-> r.data]

\* ------------------------------------------------------------ the messages
\* Header names and values, as bytes.
PathName == <<80, 97, 116, 104>>                                   \* Path
TypeName == <<67, 111, 110, 116, 101, 110, 116, 45, 84, 121, 112, 101>>  \* Content-Type
TimeName == <<88, 45, 84, 105, 109, 101, 115, 116, 97, 109, 112>>  \* X-Timestamp
TurnEndValue == <<116, 117, 114, 110, 46, 101, 110, 100>>          \* turn.end
AudioValue == <<97, 117, 100, 105, 111>>                           \* audio
MpegValue == <<97, 117, 100, 105, 111, 47, 109, 112, 101, 103>>    \* audio/mpeg
TimeValue == <<49, 50, 58, 51, 48, 58, 48, 53>>                    \* 12:30:05

Header(name, value) == [name |-> name, value |-> value]

TextHeaderLists ==
  {<<Header(PathName, TurnEndValue)>>,
   <<Header(TimeName, TimeValue), Header(PathName, TurnEndValue)>>}

BinaryHeaderLists ==
  {<<Header(PathName, AudioValue)>>,
   <<Header(TypeName, MpegValue), Header(PathName, AudioValue)>>,
   <<Header(TimeName, TimeValue), Header(TypeName, MpegValue),
     Header(PathName, AudioValue)>>}

Bodies == {<<>>, <<120>>, <<123, 125>>}

\* The header lines of a message, each closed by CRLF, as the requests of
\* lines 112-135 write them.
RECURSIVE HeaderBlock(_)
HeaderBlock(hs) ==
  IF hs = <<>> THEN <<>>
  ELSE Head(hs).name \o Colon \o Head(hs).value \o CRLF \o HeaderBlock(Tail(hs))

\* Text form: the header lines, an empty line, the body.
EncodeText(hs, body) == HeaderBlock(hs) \o CRLF \o body

\* Binary form: the length of the header block as 2 bytes, big-endian, the
\* header block, the payload.
EncodeBinary(hs, payload) ==
  <<Len(HeaderBlock(hs)) \div 256, Len(HeaderBlock(hs)) % 256>>
    \o HeaderBlock(hs) \o payload

\* A peer builds a message.
BuildText(hs, body) ==
  /\ codec.stage = "none"
  /\ codec' = [NoCodec EXCEPT !.stage = "built", !.form = "text", !.headers = hs,
                              !.body = body, !.raw = EncodeText(hs, body)]
  /\ UNCHANGED <<texts, state, gen, conns, out, nmsgs, frames, now, clockSkewSeconds, seg, fetch, arrived, xml, corrections, subMaker, tts>>

BuildBinary(hs, payload) ==
  /\ codec.stage = "none"
  /\ codec' = [NoCodec EXCEPT !.stage = "built", !.form = "binary", !.headers = hs,
                              !.body = payload, !.raw = EncodeBinary(hs, payload)]
  /\ UNCHANGED <<texts, state, gen, conns, out, nmsgs, frames, now, clockSkewSeconds, seg, fetch, arrived, xml, corrections, subMaker, tts>>

\* The message arrives without its last n bytes.
Cut(n) ==
  /\ codec.stage = "built" /\ ~codec.cut
  /\ n \in 1..Len(codec.raw)
  /\ codec' = [codec EXCEPT !.cut = TRUE,
                            !.raw = SubSeq(codec.raw, 1, Len(codec.raw) - n)]
  /\ UNCHANGED <<texts, state, gen, conns, out, nmsgs, frames, now, clockSkewSeconds, seg, fetch, arrived, xml, corrections, subMaker, tts>>

\* The loop takes the message and decodes it.
Decode ==
  /\ codec.stage = "built"
  /\ codec' = [codec EXCEPT !.stage = "decoded",
                            !.result = IF codec.form = "text"
                                       THEN DecodeTextMessage(codec.raw)
                                       ELSE DecodeBinaryMessage(codec.raw)]
  /\ UNCHANGED <<texts, state, gen, conns, out, nmsgs, frames, now, clockSkewSeconds, seg, fetch, arrived, xml, corrections, subMaker, tts>>

CodecInit == InitFrom(0, 0, {})

CodecNext ==
  \/ \E hs \in TextHeaderLists, body \in Bodies : BuildText(hs, body)
  \/ \E hs \in BinaryHeaderLists, payload \in Bodies : BuildBinary(hs, payload)
  \/ \E n \in 1..MaxCut : Cut(n)
  \/ Decode

\* Messages through the decoder, one at a time.
CodecSpec == CodecInit /\ [][CodecNext]_vars

\* ------------------------------------------------------ the text segmenter
\* A decoded string is a sequence of characters, each the bytes of its
\* UTF-8 encoding; what cannot be decoded becomes U+FFFD.
Replacement == <<239, 191, 189>>

\* The number of continuation bytes a lead byte asks for, -1 for a byte that
\* cannot start a character.
Need(b) ==
  IF b < 128 THEN 0
  ELSE IF b >= 194 /\ b <= 223 THEN 1
  ELSE IF b >= 224 /\ b <= 239 THEN 2
  ELSE IF b >= 240 /\ b <= 244 THEN 3
  ELSE -1

IsContinuation(b) == b >= 128 /\ b <= 191

\* How many of the first n bytes of buf are continuation bytes, counted
\* from its start.
RECURSIVE ContinuationRun(_, _)
ContinuationRun(buf, n) ==
  IF n = 0 \/ buf = <<>> \/ ~IsContinuation(Head(buf)) THEN 0
  ELSE 1 + ContinuationRun(Tail(buf), n - 1)

\* Buffer.toString("utf-8"): an ill-formed or cut-off sequence decodes to
\* one U+FFFD.
RECURSIVE toString(_)
toString(buf) ==
  IF buf = <<>> THEN <<>>
  ELSE LET n == Need(Head(buf))
           k == IF n < 0 THEN 0 ELSE ContinuationRun(Tail(buf), n)
       IN IF n >= 0 /\ k = n
          THEN <<SubSeq(buf, 1, n + 1)>> \o toString(SubSeq(buf, n + 2, Len(buf)))
          ELSE <<Replacement>> \o toString(SubSeq(buf, k + 2, Len(buf)))

\* Buffer.from(string)
RECURSIVE bufferFrom(_)
bufferFrom(str) == IF str = <<>> THEN <<>> ELSE Head(str) \o bufferFrom(Tail(str))

IsSpaceChar(c) == Len(c) = 1 /\ c[1] \in Whitespace

RECURSIVE trimStartChars(_)
trimStartChars(str) ==
  IF str # <<>> /\ IsSpaceChar(Head(str)) THEN trimStartChars(Tail(str)) ELSE str

RECURSIVE trimEndChars(_)
trimEndChars(str) ==
  IF str # <<>> /\ IsSpaceChar(str[Len(str)])
  THEN trimEndChars(SubSeq(str, 1, Len(str) - 1)) ELSE str

\* Faulty variant: the string is yielded as it was cut.
trimNothing(str) == str

\* String.trim() on a decoded string.
trimChars(str) == trimEndChars(trimStartChars(str))

\* Buffer.lastIndexOf(byte): 0-based, -1 if the byte does not occur.
RECURSIVE lastIndexOf(_, _)
lastIndexOf(buf, byte) ==
  IF buf = <<>> THEN -1
  ELSE IF buf[Len(buf)] = byte THEN Len(buf) - 1
  ELSE lastIndexOf(SubSeq(buf, 1, Len(buf) - 1), byte)

\* Buffer.indexOf(byte, from): 0-based, -1 if the byte does not occur at or
\* after from.
indexOfFrom(buf, byte, from) ==
  LET r == indexOf(SubSeq(buf, from + 1, Len(buf)), <<byte>>)
  IN IF r < 0 THEN -1 ELSE r + from

findLastNewlineOrSpaceWithinLimit(text, limit) ==
  LET slice == subarray(text, 0, limit)
      splitAt == lastIndexOf(slice, 10)
  IN IF splitAt < 0 THEN lastIndexOf(slice, 32) ELSE splitAt

\* The loop of findSafeUtf8SplitPoint from splitAt downwards.
RECURSIVE SafeFrom(_, _)
SafeFrom(textSegment, splitAt) ==
  IF splitAt <= 0 THEN splitAt
  ELSE LET sub == subarray(textSegment, 0, splitAt)
           str == toString(sub)
       IN IF sub[Len(sub)] < 128 THEN splitAt
          ELSE IF Len(bufferFrom(str)) = Len(sub) /\ str[Len(str)] # Replacement
          THEN splitAt
          ELSE SafeFrom(textSegment, splitAt - 1)

\* Faulty variant: the segment is cut where it ends.
findSplitPointAtEnd(textSegment) == Len(textSegment)

findSafeUtf8SplitPoint(textSegment) == SafeFrom(textSegment, Len(textSegment))

adjustSplitPointForXmlEntity(text, splitAt) ==
  LET sub == subarray(text, 0, splitAt)
      ampersandIndex == lastIndexOf(sub, 38)
  IN IF ampersandIndex > -1 /\ indexOfFrom(sub, 59, ampersandIndex) = -1
     THEN ampersandIndex
     ELSE splitAt

\* The split point of one iteration (utils.ts lines 119-125).
SplitPoint(buffer, byteLength) ==
  LET s1 == findLastNewlineOrSpaceWithinLimit(buffer, byteLength)
      s2 == IF s1 < 0 THEN findSafeUtf8SplitPoint(subarray(buffer, 0, byteLength))
            ELSE s1
  IN adjustSplitPointForXmlEntity(buffer, s2)

\* Faulty variant: the byte at the split point is always skipped.
RestAfterNext(buffer, splitAt) == subarray(buffer, splitAt + 1, Len(buffer))

\* What is left after a split (line 138).
RestAfter(buffer, splitAt) ==
  subarray(buffer, splitAt + (IF splitAt > 0 THEN 0 ELSE 1), Len(buffer))

\* The characters of the texts given to the segmenter: a letter, a space, a
\* newline, an ampersand, a semicolon, a character of two bytes and one of
\* four.
SegChars ==
  {<<97>>, <<32>>, <<10>>, <<38>>, <<59>>, <<195, 169>>, <<240, 159, 152, 128>>}

SegTexts ==
  UNION {{bufferFrom(cs) : cs \in [1..n -> SegChars]} : n \in 0..MaxChars}

\* splitTextByByteLength(text, byteLength) up to its loop (lines 114-116).
SegCall(text, byteLength) ==
  /\ seg' = [NoSeg EXCEPT !.pc = IF byteLength <= 0 THEN "failed" ELSE "loop",
                          !.text = text, !.byteLength = byteLength,
                          !.buffer = text]
  /\ UNCHANGED <<texts, state, gen, conns, out, nmsgs, frames, now, clockSkewSeconds, codec, fetch, arrived, xml, corrections, subMaker, tts>>

\* One iteration of the loop (lines 118-139).
SegSplit ==
  /\ seg.pc = "loop"
  /\ Len(seg.buffer) > seg.byteLength
  /\ LET splitAt == SplitPoint(seg.buffer, seg.byteLength)
         chunkStr == trimChars(toString(subarray(seg.buffer, 0, splitAt)))
     IN IF splitAt <= 0
        THEN seg' = [seg EXCEPT !.pc = "failed"]
        ELSE seg' = [seg EXCEPT
               !.chunks = IF Len(chunkStr) > 0
                          THEN Append(@, [bytes |-> bufferFrom(chunkStr),
                                          cut |-> seg.consumed + splitAt,
                                          tail |-> FALSE])
                          ELSE @,
               !.buffer = RestAfter(seg.buffer, splitAt),
               !.consumed = Len(seg.text) - Len(RestAfter(seg.buffer, splitAt))]
  /\ UNCHANGED <<texts, state, gen, conns, out, nmsgs, frames, now, clockSkewSeconds, codec, fetch, arrived, xml, corrections, subMaker, tts>>

\* After the loop (lines 141-144).
SegTail ==
  /\ seg.pc = "loop"
  /\ Len(seg.buffer) <= seg.byteLength
  /\ LET remaining == trimChars(toString(seg.buffer))
     IN seg' = [seg EXCEPT
          !.pc = "done",
          !.chunks = IF Len(remaining) > 0
                     THEN Append(@, [bytes |-> bufferFrom(remaining),
                                     cut |-> Len(seg.text), tail |-> TRUE])
                     ELSE @,
          !.buffer = <<>>,
          !.consumed = Len(seg.text)]
  /\ UNCHANGED <<texts, state, gen, conns, out, nmsgs, frames, now, clockSkewSeconds, codec, fetch, arrived, xml, corrections, subMaker, tts>>

SegInit == InitFrom(0, 0, {}) /\ texts = <<>>

SegNext ==
  \/ /\ seg.pc = "none"
     /\ \E text \in SegTexts, byteLength \in 0..MaxBytes : SegCall(text, byteLength)
  \/ SegSplit
  \/ SegTail

\* Calls of the segmenter, each run to its end.
SegmentSpec == SegInit /\ [][SegNext]_vars

\* ------------------------------------------------- escapeXml, unescapeXml
\* String.replace with a global pattern: every occurrence of pat in s, found
\* from left to right without overlap, gives way to rep.
RECURSIVE replace(_, _, _)
replace(s, pat, rep) ==
  IF Len(s) < Len(pat) THEN s
  ELSE IF SubSeq(s, 1, Len(pat)) = pat
  THEN rep \o replace(SubSeq(s, Len(pat) + 1, Len(s)), pat, rep)
  ELSE <<Head(s)>> \o replace(Tail(s), pat, rep)

Lt == <<"&", "l", "t", ";">>
Gt == <<"&", "g", "t", ";">>
Amp == <<"&", "a", "m", "p", ";">>
Apos == <<"&", "a", "p", "o", "s", ";">>
Quot == <<"&", "q", "u", "o", "t", ";">>

\* The callback of escapeXml (lines 9-22).
EscapeChar(c) ==
  CASE c = "<" -> Lt
    [] c = ">" -> Gt
    [] c = "&" -> Amp
    [] c = "'" -> Apos
    [] c = "\"" -> Quot
    [] OTHER -> <<c>>

RECURSIVE escapeXml(_)
escapeXml(unsafe) ==
  IF unsafe = <<>> THEN <<>>
  ELSE EscapeChar(Head(unsafe)) \o escapeXml(Tail(unsafe))

\* The five replacements of unescapeXml, in the order of lines 27-32.
unescapeXml(safe) ==
  replace(replace(replace(replace(replace(safe,
    Lt, <<"<">>), Gt, <<">">>), Amp, <<"&">>), Apos, <<"'">>), Quot, <<"\"">>)

\* What a text is made of: the five characters that are escaped, a letter,
\* a semicolon, and the five entity references written out.
XmlPieces ==
  {<<"<">>, <<">">>, <<"&">>, <<"'">>, <<"\"">>, <<"a">>, <<";">>,
   Lt, Gt, Amp, Apos, Quot}

RECURSIVE Flatten(_)
Flatten(ps) == IF ps = <<>> THEN <<>> ELSE Head(ps) \o Flatten(Tail(ps))

XmlTexts ==
  UNION {{Flatten(ps) : ps \in [1..n -> XmlPieces]} : n \in 0..MaxPieces}

\* The caller hands a text to the constructor.
XmlGive(text) ==
  /\ xml' = [NoXml EXCEPT !.pc = "given", !.text = text]
  /\ UNCHANGED <<texts, state, gen, conns, out, nmsgs, frames, now, clockSkewSeconds, codec, seg, fetch, arrived, corrections, subMaker, tts>>

\* The constructor escapes it (communicate.ts line 58).
XmlEscape ==
  /\ xml.pc = "given"
  /\ xml' = [xml EXCEPT !.pc = "escaped", !.escaped = escapeXml(xml.text)]
  /\ UNCHANGED <<texts, state, gen, conns, out, nmsgs, frames, now, clockSkewSeconds, codec, seg, fetch, arrived, corrections, subMaker, tts>>

\* The service echoes the escaped text in a boundary item and parseMetadata
\* unescapes it (communicate.ts line 85).
XmlUnescape ==
  /\ xml.pc = "escaped"
  /\ xml' = [xml EXCEPT !.pc = "unescaped", !.result = unescapeXml(xml.escaped)]
  /\ UNCHANGED <<texts, state, gen, conns, out, nmsgs, frames, now, clockSkewSeconds, codec, seg, fetch, arrived, corrections, subMaker, tts>>

XmlInit == InitFrom(0, 0, {}) /\ texts = <<>>

XmlNext ==
  \/ /\ xml.pc = "none"
     /\ \E text \in XmlTexts : XmlGive(text)
  \/ XmlEscape
  \/ XmlUnescape

\* Texts escaped for the request and unescaped from the response.
XmlSpec == XmlInit /\ [][XmlNext]_vars

\* ---------------------------------------------------------------- SubMaker
\* The events a caller may feed: of each type, with offset, duration and
\* text (text names the fragment) or without them.
FeedChunks ==
  {[type |-> t, complete |-> TRUE, offset |-> o, duration |-> 500000, text |-> 1] :
     t \in {"WordBoundary", "SentenceBoundary", "audio"}, o \in Offsets}
  \cup {[type |-> t, complete |-> FALSE, offset |-> 0, duration |-> 0, text |-> 0] :
     t \in {"WordBoundary", "SentenceBoundary", "audio"}}

\* msg.type !== "WordBoundary" && msg.type !== "SentenceBoundary"
InvalidType(msg) == msg.type \notin {"WordBoundary", "SentenceBoundary"}

\* Faulty variant: the type of the first event is not compared.
TypeMismatchNever(type, msg) == FALSE

\* this.type !== msg.type, once this.type is set
TypeMismatch(type, msg) == type # "null" /\ type # msg.type

\* The cue feed pushes (part_000 lines 103-111); times in milliseconds.
Cue(cues, msg) ==
  [index |-> Len(cues) + 1, start |-> msg.offset \div 10000,
   end |-> (msg.offset \div 10000) + (msg.duration \div 10000),
   content |-> msg.text]

\* SubMaker.feed(msg) (part_000 lines 79-112).
Feed(msg) ==
  /\ Len(subMaker.fed) < MaxFeeds
  /\ LET threw == InvalidType(msg) \/ TypeMismatch(subMaker.type, msg)
         type == IF threw THEN subMaker.type ELSE msg.type
         cues == IF threw \/ ~msg.complete THEN subMaker.cues
                 ELSE Append(subMaker.cues, Cue(subMaker.cues, msg))
     IN  subMaker' = [type |-> type, cues |-> cues,
                 fed |-> Append(subMaker.fed, [msg |-> msg, threw |-> threw,
                                          before |-> subMaker.cues, after |-> cues])]
  /\ UNCHANGED <<texts, state, gen, conns, out, nmsgs, frames, now, clockSkewSeconds, codec, seg, fetch, arrived, xml, corrections, tts>>

SubInit == InitFrom(0, 0, {}) /\ texts = <<>>

SubNext == \E msg \in FeedChunks : Feed(msg)

\* A SubMaker fed with events of every type in any order.
SubSpec == SubInit /\ [][SubNext]_vars

\* --------------------------------------------------------------- MsEdgeTTS
NotEnded == [kind |-> "none", conn |-> 0, requestId |-> 0]

\* _initClient up to its promise (part_002 lines 123-129): a new WebSocket
\* takes the place of this._ws; the one it replaces is not closed.
InitClient(t) ==
  [t EXCEPT !.socks = Append(@, "connecting"), !.ws = Len(t.socks) + 1]

IsOpen(t) == t.ws # 0 /\ t.socks[t.ws] = "open"

\* setMetadata with a change of voice, format or options, or while the
\* socket is not open (lines 254-293).
SetMetadata ==
  /\ Len(tts.socks) < MaxSockets
  /\ tts' = InitClient(tts)
  /\ UNCHANGED <<texts, state, gen, conns, out, nmsgs, frames, now, clockSkewSeconds, codec, seg, fetch, arrived, xml, corrections, subMaker>>

\* One test of the loop of _send in round i, and what follows it (lines
\* 110-121): a new client while the socket is not open, at most three
\* times, then the send on this._ws, which fails unless it is open.
Send(t, r, i) ==
  IF i <= 3 /\ ~IsOpen(t)
  THEN IF Len(t.socks) < MaxSockets
       THEN [InitClient(t) EXCEPT
               !.streams[r].pc = "waiting",
               !.streams[r].on = Len(t.socks) + 1,
               !.streams[r].i = i]
       ELSE [t EXCEPT !.streams[r].pc = "failed"]
  ELSE IF IsOpen(t)
  THEN [t EXCEPT !.streams[r].pc = "sent", !.streams[r].conn = t.ws]
  ELSE [t EXCEPT !.streams[r].pc = "failed"]

\* _rawSSMLRequest (lines 423-462): the streams are registered under a new
\* request id and _send starts.
RawSSMLRequest ==
  /\ tts.ws # 0
  /\ Len(tts.streams) < MaxRequests
  /\ LET r == Len(tts.streams) + 1
         t == [tts EXCEPT !.streams = Append(@,
                 [pc |-> "new", on |-> 0, i |-> 0, conn |-> 0,
                  ended |-> FALSE, by |-> NotEnded])]
     IN  tts' = Send(t, r, 1)
  /\ UNCHANGED <<texts, state, gen, conns, out, nmsgs, frames, now, clockSkewSeconds, codec, seg, fetch, arrived, xml, corrections, subMaker>>

\* onopen of socket k (lines 130-153): the configuration is sent and the
\* promise of _initClient resolves.
MsOpen(k) ==
  /\ tts.socks[k] = "connecting"
  /\ tts' = [tts EXCEPT !.socks[k] = "open"]
  /\ UNCHANGED <<texts, state, gen, conns, out, nmsgs, frames, now, clockSkewSeconds, codec, seg, fetch, arrived, xml, corrections, subMaker>>

\* The _send of request r goes on after its await of _initClient.
MsSendResume(r) ==
  /\ tts.streams[r].pc = "waiting"
  /\ tts.socks[tts.streams[r].on] = "open"
  /\ tts' = Send(tts, r, tts.streams[r].i + 1)
  /\ UNCHANGED <<texts, state, gen, conns, out, nmsgs, frames, now, clockSkewSeconds, codec, seg, fetch, arrived, xml, corrections, subMaker>>

\* The streams a turn.end with X-RequestId requestId ends (lines 155-168).
TurnEndTargets(t, requestId) == {requestId}

\* The streams the close of a socket ends (lines 196-205): every stream
\* registered in this._streams.
CloseTargets(t, k) == DOMAIN t.streams

\* null is pushed on the audio streams rs; the first push ends a stream.
PushNull(t, rs, by) ==
  [t EXCEPT !.streams = [r \in DOMAIN t.streams |->
     IF r \in rs /\ ~t.streams[r].ended
       THEN [t.streams[r] EXCEPT !.ended = TRUE, !.by = by]
       ELSE t.streams[r]]]

\* onmessage of socket k with a turn.end frame for request r, which was
\* sent on k.
MsTurnEnd(k, r) ==
  /\ tts.socks[k] = "open"
  /\ tts.streams[r].pc = "sent" /\ tts.streams[r].conn = k
  /\ ~tts.streams[r].ended
  /\ tts' = PushNull(tts, TurnEndTargets(tts, r),
                     [kind |-> "turn.end", conn |-> k, requestId |-> r])
  /\ UNCHANGED <<texts, state, gen, conns, out, nmsgs, frames, now, clockSkewSeconds, codec, seg, fetch, arrived, xml, corrections, subMaker>>

\* onclose of socket k: the service or the network closes it.
MsClose(k) ==
  /\ tts.socks[k] \in {"connecting", "open"}
  /\ tts' = PushNull([tts EXCEPT !.socks[k] = "closed"], CloseTargets(tts, k),
                     [kind |-> "close", conn |-> k, requestId |-> 0])
  /\ UNCHANGED <<texts, state, gen, conns, out, nmsgs, frames, now, clockSkewSeconds, codec, seg, fetch, arrived, xml, corrections, subMaker>>

MsInit == InitFrom(0, 0, {}) /\ texts = <<>>

MsNext ==
  \/ SetMetadata
  \/ RawSSMLRequest
  \/ \E k \in DOMAIN tts.socks : MsOpen(k)
  \/ \E r \in DOMAIN tts.streams : MsSendResume(r)
  \/ \E k \in DOMAIN tts.socks, r \in DOMAIN tts.streams : MsTurnEnd(k, r)
  \/ \E k \in DOMAIN tts.socks : MsClose(k)

\* An MsEdgeTTS object used in any order.
MsSpec == MsInit /\ [][MsNext]_vars

\* ==================================================================== claims
Terminal == {"done", "failed", "returned"}
EndOf(e) == e.offset + e.duration
\* The boundary events handed over by g for the chunks up to k, in order.
BoundariesUpTo(g, k) == SelectSeq(out[g], LAMBDA e : IsBoundary(e) /\ e.chunk <= k)
EventsOf(g, k) == SelectSeq(out[g], LAMBDA e : e.chunk = k)
LastEnd(s) == IF s = <<>> THEN 0 ELSE EndOf(s[Len(s)])
ConnsOf(g) == {j \in DOMAIN conns : conns[j].gen = g}
LastOf(s) == s[Len(s)]

ScenarioFrames ==
  <<TextFrame("turn.start", NoMeta),
    TextFrame("audio.metadata", <<MetaItem("WordBoundary", 1000000, 500000)>>),
    AudioFrame,
    TextFrame("turn.end", NoMeta)>>

\* C1: a processed turn.end sets offsetCompensation to (offset + duration of
\* the most recently emitted boundary event) + 8,750,000 and ends the chunk
\* (turn.end is the last message the loop takes on that socket and the
\* generator no longer receives on it); and a first chunk whose frames are
\* turn.start, audio.metadata(WordBoundary, 1,000,000, 500,000), audio,
\* turn.end emits exactly that WordBoundary event at offset 1,000,000 and then
\* one audio event, and leaves offsetCompensation = 10,250,000 for the next
\* chunk.
C1_TurnEndCompensation ==
  \A j \in DOMAIN conns :
    LET c == conns[j]
        g == c.gen
        latest == \A i \in DOMAIN conns : i > j => conns[i].endedBy # "turn.end"
    IN /\ c.endedBy = "turn.end" =>
            /\ LastOf(c.recv).path = "turn.end"
            /\ ~(gen[g].ws = j /\ gen[g].pc \in {"awaitMsg", "resumable", "yielded"})
            /\ latest => state.offsetCompensation
                           = LastEnd(BoundariesUpTo(g, c.chunk)) + 8750000
       /\ (c.chunk = 1 /\ c.recv = ScenarioFrames) =>
            /\ EventsOf(g, 1) =
                 <<[type |-> "WordBoundary", offset |-> 1000000,
                    duration |-> 500000, chunk |-> 1, data |-> 0],
                   [type |-> "audio", offset |-> 0, duration |-> 0, chunk |-> 1,
                    data |-> 1]>>
            /\ latest => state.offsetCompensation = 10250000

\* C1 witness: the scenario has run on the first chunk and the connection of
\* the second chunk has been created.
C1_Witness ==
  /\ Len(conns) = 2
  /\ conns[1].chunk = 1 /\ conns[1].recv = ScenarioFrames
  /\ conns[1].endedBy = "turn.end"
  /\ state.offsetCompensation = 10250000

\* The raw offsets of the boundary items the loop has taken on socket j.
RawOffsets(j) ==
  LET ms == SelectSeq(conns[j].recv, LAMBDA m : m.path = "audio.metadata")
  IN [i \in 1..Len(ms) |-> ms[i].meta[1].Offset]
NonDecreasing(s) == \A i \in 1..Len(s) - 1 : s[i] <= s[i + 1]
NonNegative(s) == \A i \in 1..Len(s) : s[i] >= 0

\* C2: when the raw offsets delivered on each connection are non-negative and
\* non-decreasing, every boundary event of a later chunk has offset >=
\* (offset + duration) + 8,750,000 of the last boundary event of the
\* preceding chunk that emitted one, however that chunk's connection ended.
\* (Stated for the runs without a socket error event, which C5 is about.)
C2_MonotoneTimeline ==
  \A g \in Gens :
    (\A j \in ConnsOf(g) : /\ NonNegative(RawOffsets(j))
                           /\ NonDecreasing(RawOffsets(j))
                           /\ ~conns[j].errored)
    => LET B == BoundariesUpTo(g, NumChunks + 1) IN
       \A i \in 1..Len(B), k \in 1..Len(B) :
         (/\ i < k
          /\ B[i].chunk < B[k].chunk
          /\ B[i + 1].chunk # B[i].chunk
          /\ \A n \in i + 1..k : B[n].chunk = B[k].chunk)
         => B[k].offset >= EndOf(B[i]) + 8750000

\* C3: a receive loop that has ended (by turn.end or by the closed socket)
\* on a chunk for which no audio event was emitted has failed the stream with
\* NoAudioReceived on that chunk, whatever boundary events the chunk emitted
\* and whatever audio earlier chunks emitted.
C3_NoAudioReceived ==
  \A j \in DOMAIN conns :
    LET c == conns[j]
        g == c.gen
    IN (/\ c.endedBy \in {"turn.end", "closed"}
        /\ \A i \in 1..Len(out[g]) :
             ~(out[g][i].chunk = c.chunk /\ out[g][i].type = "audio"))
       => /\ gen[g].pc = "failed"
          /\ gen[g].err = "NoAudioReceived"
          /\ gen[g].ws = j

\* C3 witness: the second chunk fails with NoAudioReceived after emitting a
\* boundary event, the first chunk having emitted audio.
C3_Witness ==
  \E g \in Gens :
    /\ gen[g].pc = "failed" /\ gen[g].err = "NoAudioReceived" /\ gen[g].chunk = 2
    /\ \E i \in 1..Len(out[g]) : out[g][i].chunk = 1 /\ out[g][i].type = "audio"
    /\ \E i \in 1..Len(out[g]) : out[g][i].chunk = 2 /\ IsBoundary(out[g][i])

\* C4: a handshake rejected with 403 (usable Date header) is retried once, so
\* a stream that has failed with that rejection has made two connection
\* attempts for the chunk.
C4_RetryOnce ==
  \A g \in Gens :
    (gen[g].pc = "failed" /\ gen[g].err = "Rejected403")
    => Cardinality({j \in ConnsOf(g) : conns[j].chunk = gen[g].chunk}) = 2

\* C5: once a socket error event has occurred on a chunk's open connection,
\* the chunk is never completed, the stream never advances past it, and when
\* the stream has ended it has failed with that error.
C5_SocketErrorFatal ==
  \A j \in DOMAIN conns :
    conns[j].errored =>
      LET g == conns[j].gen IN
      /\ gen[g].ws = j
      /\ gen[g].pc # "done"
      /\ gen[g].pc = "failed" => gen[g].err = "SocketError"

\* C6: the connection of chunk k+1 exists only if a turn.end has been
\* processed on the connection of chunk k.
\* (Stated for the runs without a socket error event, which C5 is about.)
C6_NextChunkAfterTurnEnd ==
  \A j \in DOMAIN conns :
    (conns[j].chunk > 1 /\ \A i \in DOMAIN conns : ~conns[i].errored)
    => \E i \in ConnsOf(conns[j].gen) :
         /\ i < j
         /\ conns[i].chunk = conns[j].chunk - 1
         /\ conns[i].endedBy = "turn.end"

\* The body of g has been entered: g was asked for a value at least once.
Entered(g) == gen[g].pc # "start" /\ ~(gen[g].pc = "returned" /\ gen[g].chunk = 0)
Touched(g) == out[g] # <<>> \/ ConnsOf(g) # {}
Refused(g) ==
  gen[g].pc = "failed" /\ gen[g].err = "AlreadyConsumed" /\ ~Touched(g)

\* C7: of the generators of one object at most one opens a connection or
\* yields an event, and of any two whose body has been entered one has failed
\* with the already-consumed error without opening a connection or yielding.
C7_ConsumedOnce ==
  /\ Cardinality({g \in Gens : Touched(g)}) <= 1
  /\ Cardinality({g \in Gens : Entered(g) /\ ~Refused(g)}) <= 1
  /\ (\E g \in Gens : Entered(g)) <=> state.streamWasCalled

\* C7 witness: one generator has yielded an event and has been abandoned,
\* another one has been refused.
C7_Witness ==
  \E g \in Gens, h \in Gens :
    /\ out[g] # <<>> /\ gen[g].pc = "returned"
    /\ Refused(h)

\* C8: every started stream() call eventually completes or fails, even when
\* the service never answers and never closes the connection.
C8_Terminates == (gen[1].pc # "start") ~> (gen[1].pc \in Terminal)

\* C9: once the caller has asked a stream, suspended in connection
\* establishment or in waiting for a message, to stop, the active socket is
\* closed, no further event is yielded, and the stream ends with a Cancelled
\* outcome.
C9_CancelStops ==
  \A g \in Gens :
    gen[g].cancelAt >= 0 =>
      /\ Len(out[g]) = gen[g].cancelAt
      /\ conns[gen[g].ws].socket \in {"closed", "shut"}
      /\ gen[g].pc \in Terminal => gen[g].err = "Cancelled"

\* C10: the i-th connection of a stream is the connection of chunk i; on it
\* exactly the configuration request and then one SSML request carrying the
\* text of chunk i have been sent once it is open (nothing before); and a
\* stream that has completed has opened one connection per chunk.
C10_OneConnectionPerChunk ==
  \A g \in Gens :
    /\ \A j \in ConnsOf(g) :
         LET c == conns[j] IN
         /\ c.chunk = Cardinality({i \in ConnsOf(g) : i <= j})
         /\ c.chunk \in 1..Len(texts)
         /\ \/ c.socket = "connecting" /\ c.sent = <<>>
            \/ /\ Len(c.sent) = 2
               /\ c.sent[1].path = "speech.config"
               /\ c.sent[2] = [path |-> "ssml", text |-> texts[c.chunk]]
            \/ c.socket = "closed" /\ c.sent = <<>> /\ gen[g].pc = "failed"
    /\ gen[g].pc = "done" =>
         /\ Cardinality(ConnsOf(g)) = Len(texts)
         /\ \A j \in ConnsOf(g) : Len(conns[j].sent) = 2

\* C10 witness: a stream over two chunks has completed.
C10_Witness ==
  \E g \in Gens : gen[g].pc = "done" /\ Len(texts) = 2 /\ Len(conns) = 2

\* C11: every connection carries the token of the 300-second window of the
\* skew-corrected clock at the time the connection was created; the token
\* computed for an earlier connection is not used again once the clock has
\* crossed a window boundary or the skew has been corrected.
C11_FreshTokenPerConnection ==
  \A j \in DOMAIN conns : conns[j].token = TokenAt(conns[j].createdAt)

\* The metadata frames the loop has taken on socket j, in order.
MetadataOf(j) == SelectSeq(conns[j].recv, LAMBDA m : m.path = "audio.metadata")
IsBoundaryItem(it) == it.Type \in {"WordBoundary", "SentenceBoundary"}
OnlyBoundaryItems(m) == \A i \in 1..Len(m.meta) : IsBoundaryItem(m.meta[i])
\* The event the specification asks for a boundary item.
EventOfItem(it, oc, k) ==
  [type |-> it.Type, offset |-> it.Offset + oc, duration |-> it.Duration,
   chunk |-> k, data |-> 0]
RECURSIVE EventsOfFrames(_, _, _)
EventsOfFrames(ms, oc, k) ==
  IF ms = <<>> THEN <<>>
  ELSE [i \in 1..Len(Head(ms).meta) |-> EventOfItem(Head(ms).meta[i], oc, k)]
         \o EventsOfFrames(Tail(ms), oc, k)

\* C12: once the loop has dealt with the frames it took and waits for the
\* next one, the boundary events of the chunk are those of all the boundary
\* items of its metadata frames, one per item, in order, each at raw offset +
\* offsetCompensation, and lastDurationOffset is the end of the last of
\* them.  (Stated for frames made of boundary items only.)
C12_EveryBoundaryItemEmitted ==
  \A g \in Gens :
    LET w == gen[g].ws
        k == gen[g].chunk
    IN (/\ gen[g].pc = "awaitMsg"
        /\ \A i \in 1..Len(MetadataOf(w)) : OnlyBoundaryItems(MetadataOf(w)[i]))
       => LET want == EventsOfFrames(MetadataOf(w), state.offsetCompensation, k)
          IN /\ SelectSeq(EventsOf(g, k), IsBoundary) = want
             /\ want # <<>> => state.lastDurationOffset = LastEnd(want)

\* What the specification's table says of a binary frame that passed the
\* prefix checks and whose Path is audio.
TableOutcome(m) ==
  IF m.contentType = "audio/mpeg" /\ m.dataLen > 0 THEN "audio"
  ELSE IF m.contentType = "none" /\ m.dataLen = 0 THEN "skip"
  ELSE "error"
IsAudioFrame(m) ==
  m.isBinary /\ m.len >= 2 /\ m.headerLen <= m.len /\ m.path = "audio"
AudioEventOf(m, k) ==
  [type |-> "audio", offset |-> 0, duration |-> 0, chunk |-> k, data |-> m.dataLen]

C14_OneBoundaryType ==
  \A g \in Gens :
    LET B == BoundariesUpTo(g, NumChunks + 1)
    IN \A i \in 1..Len(B), k \in 1..Len(B) : B[i].type = B[k].type

HasUnknownItem(m) ==
  \E i \in 1..Len(m.meta) :
    m.meta[i].Type \notin {"WordBoundary", "SentenceBoundary", "SessionEnd"}

\* C15: a metadata frame with an item of a type other than WordBoundary,
\* SentenceBoundary and SessionEnd, at any position, fails the stream with
\* the unknown-metadata-type error: once the generator is past the events
\* of the frame (it is not suspended at one of them and was not cancelled),
\* the frame is the last one taken and the stream has failed with
\* UnknownResponse.
C15_UnknownTypeFails ==
  \A j \in DOMAIN conns :
    LET c == conns[j]
        g == c.gen
    IN \A i \in 1..Len(c.recv) :
         (/\ c.recv[i].path = "audio.metadata"
          /\ HasUnknownItem(c.recv[i])
          /\ gen[g].pc \notin {"yielded", "returned"})
         => /\ i = Len(c.recv)
            /\ gen[g].ws = j
            /\ gen[g].pc = "failed" /\ gen[g].err = "UnknownResponse"

OnlySessionEnd(m) ==
  /\ m.path = "audio.metadata"
  /\ m.meta # <<>>
  /\ \A i \in 1..Len(m.meta) : m.meta[i].Type = "SessionEnd"

\* C16: a metadata frame whose items are all of type SessionEnd does not fail
\* the stream: while it is the last frame taken, the stream has not failed
\* with a protocol error.
C16_SessionEndIgnored ==
  \A g \in Gens :
    LET w == gen[g].ws IN
    (w > 0 /\ conns[w].recv # <<>> /\ OnlySessionEnd(LastOf(conns[w].recv)))
    => ~(gen[g].pc = "failed"
         /\ gen[g].err \in {"UnexpectedResponse", "UnknownResponse"})

\* Whether the loop hands an event to the consumer for message m.
Emits(m) ==
  IF m.isBinary THEN IsAudioFrame(m) /\ TableOutcome(m) = "audio"
  ELSE m.path = "audio.metadata" /\ parseMetadata(m.meta, 0).ok
MalformedPrefix(m) == m.isBinary /\ (m.len < 2 \/ m.headerLen > m.len)
\* The sockets of g on which turn.end was processed.
TurnEnded(g) == {j \in ConnsOf(g) : conns[j].endedBy = "turn.end"}
Max(S) == CHOOSE x \in S : \A y \in S : y <= x

\* C17: a binary message of fewer than 2 bytes, or whose header length
\* exceeds the length of the message, is the last message taken and has
\* failed the stream with UnexpectedResponse; the chunk has the events of the
\* messages before it and none for it; lastDurationOffset is still the end
\* of the last boundary event emitted and offsetCompensation still the value
\* the last turn.end gave it (0 if there was none).
C17_MalformedPrefixFails ==
  \A j \in DOMAIN conns :
    LET c == conns[j]
        g == c.gen
    IN \A i \in 1..Len(c.recv) :
         MalformedPrefix(c.recv[i])
         => /\ i = Len(c.recv)
            /\ gen[g].ws = j
            /\ gen[g].pc = "failed" /\ gen[g].err = "UnexpectedResponse"
            /\ Len(EventsOf(g, c.chunk))
                 = Len(SelectSeq(SubSeq(c.recv, 1, i - 1), Emits))
            /\ state.lastDurationOffset = LastEnd(BoundariesUpTo(g, NumChunks + 1))
            /\ state.offsetCompensation
                 = IF TurnEnded(g) = {} THEN 0
                   ELSE LastEnd(BoundariesUpTo(g, conns[Max(TurnEnded(g))].chunk))
                          + GuardGapTicks

\* C17 witness: a boundary event was emitted, then a message whose header
\* length exceeds its length was taken.
C17_Witness ==
  /\ Len(conns) = 1
  /\ conns[1].recv = <<TextFrame("audio.metadata", <<WordItem(0)>>), LongHeaderFrame>>
  /\ Len(out[1]) = 1
  /\ state.lastDurationOffset = 500000
  /\ gen[1].pc = "failed"

\* The headers a sender put into a message, as a headers object.
RECURSIVE AsHeaders(_, _)
AsHeaders(hs, h) ==
  IF hs = <<>> THEN h ELSE AsHeaders(Tail(hs), Put(h, Head(hs).name, Head(hs).value))

\* C18: a message built from headers and a body, in text form or in binary
\* form, and decoded as it was built gives back the same headers and the
\* same body, also when a header value contains colons.
C18_RoundTrip ==
  (codec.stage = "decoded" /\ ~codec.cut)
  => /\ codec.result.ok
     /\ codec.result.headers = AsHeaders(codec.headers, NoHeaders)
     /\ codec.result.data = codec.body

\* C19: the headers decoded from a binary message are those of its bytes
\* [2, 2 + L) and its payload is its bytes from 2 + L on, L being the
\* big-endian value of its first two bytes.
C19_HeaderBlockRange ==
  (codec.stage = "decoded" /\ codec.form = "binary" /\ codec.result.ok)
  => LET L == readUInt16BE(codec.raw) IN
     /\ codec.result.headers
          = ParseLines(split(subarray(codec.raw, 2, 2 + L), CRLF), NoHeaders)
     /\ codec.result.data = subarray(codec.raw, 2 + L, Len(codec.raw))

\* C20: a text message without the CRLF CRLF delimiter is not decoded: the
\* decoder fails on it.
C20_NoDelimiterFails ==
  (/\ codec.stage = "decoded" /\ codec.form = "text"
   /\ indexOf(codec.raw, CRLF \o CRLF) < 0)
  => ~codec.result.ok

\* C21: every chunk yielded by splitTextByByteLength has at most byteLength
\* bytes, is not empty and neither begins nor ends with whitespace.
C21_ChunksBoundedAndTrimmed ==
  \A i \in 1..Len(seg.chunks) :
    LET c == seg.chunks[i].bytes IN
    /\ Len(c) <= seg.byteLength
    /\ c # <<>>
    /\ c[1] \notin Whitespace
    /\ c[Len(c)] \notin Whitespace

\* C21 witness: a text was split into three chunks and the call has ended.
C21_Witness ==
  /\ seg.pc = "done"
  /\ Len(seg.chunks) = 3
  /\ \E i \in 1..Len(seg.text) : seg.text[i] \in Whitespace

NonWhitespace(buf) == SelectSeq(buf, LAMBDA b : b \notin Whitespace)
RECURSIVE ChunkBytes(_)
ChunkBytes(cs) == IF cs = <<>> THEN <<>> ELSE Head(cs).bytes \o ChunkBytes(Tail(cs))

\* C22: when the call has run to its end, the chunks in order, whitespace
\* deleted, are the text with whitespace deleted.
C22_NothingLost ==
  seg.pc = "done" => NonWhitespace(ChunkBytes(seg.chunks)) = NonWhitespace(seg.text)

\* C22 witness: a text with whitespace inside was split by the loop and the
\* call has ended.
C22_Witness ==
  /\ seg.pc = "done"
  /\ Len(seg.chunks) >= 2
  /\ ~seg.chunks[1].tail
  /\ NonWhitespace(seg.text) # seg.text
  /\ NonWhitespace(seg.text) # <<>>

WellFormed(buf) == \A i \in 1..Len(toString(buf)) : toString(buf)[i] # Replacement

\* C23: every chunk is well-formed UTF-8 and every offset at which the loop
\* cut the text lies between two characters.
C23_NoSplitCodePoint ==
  \A i \in 1..Len(seg.chunks) :
    /\ WellFormed(seg.chunks[i].bytes)
    /\ WellFormed(SubSeq(seg.text, 1, seg.chunks[i].cut))
    /\ WellFormed(SubSeq(seg.text, seg.chunks[i].cut + 1, Len(seg.text)))

\* C23 witness: the loop cut a text one byte before byteLength, because a
\* two-byte character straddles that offset.
C23_Witness ==
  /\ seg.chunks # <<>>
  /\ ~seg.chunks[1].tail
  /\ seg.chunks[1].cut = seg.byteLength - 1
  /\ seg.text[seg.byteLength] = 195
  /\ \A i \in 1..Len(seg.text) : seg.text[i] \notin {10, 32, 38}

\* C24: in every chunk the loop cut off, every ampersand is followed by a
\* semicolon later in the chunk.
C24_NoDanglingEntity ==
  \A i \in 1..Len(seg.chunks) :
    LET c == seg.chunks[i].bytes IN
    ~seg.chunks[i].tail
    => \A a \in 1..Len(c) : c[a] = 38 => \E b \in a + 1..Len(c) : c[b] = 59

\* ------------------------------------------------------------ C25 .. C28
\* Every request a call of fetchVoicesInternal has made.
AllRequests ==
  UNION {{fetch[f].requests[i] : i \in 1..Len(fetch[f].requests)} : f \in DOMAIN fetch}

\* floor((t + 11644473600) / 300) * 300 * 10000000, as billions and rest:
\* 11644473600 is 38814912 * 300, and 300 * 10000000 is 3 * 10^9.
TickCount(t) ==
  [billions |-> 3 * ((t \div 300) + 38814912), rest |-> 0]

\* C25: the string that is hashed is the decimal tick count
\* floor((wall clock + skew + 11644473600) / 300) * 300 * 10000000 followed
\* by the fixed token; two tokens are equal exactly when their corrected
\* times lie in the same 300-second window.
C25_TokenOfWindow ==
  /\ \A r \in AllRequests :
       /\ r.at = r.wall + r.skew
       /\ r.token = [ticks |-> TickCount(r.at), secret |-> "TRUSTED_CLIENT_TOKEN"]
  /\ \A r1, r2 \in AllRequests :
       (r1.at \div 300 = r2.at \div 300) <=> (r1.token = r2.token)

\* Tokens were made at two different times of one window and in two
\* different windows.
C25_Witness ==
  /\ \E r1, r2 \in AllRequests :
       r1.at # r2.at /\ r1.at \div 300 = r2.at \div 300
  /\ \E r1, r2 \in AllRequests : r1.at \div 300 # r2.at \div 300

\* The first response of call f was a 403 whose Date header parsed.
Corrected(f) ==
  /\ Len(fetch[f].responses) >= 1
  /\ fetch[f].responses[1].status = 403
  /\ fetch[f].responses[1].date.kind = "date"

\* C26: after handleClientResponseError succeeded with server date S at
\* local time T the skew is S - T, whatever it was before, and the token of
\* the request that follows is the token of local time + (S - T).
C26_SkewIsServerMinusLocal ==
  \A f \in DOMAIN fetch :
    Corrected(f) =>
      LET p == fetch[f].responses[1]
          S == p.date.value
          T == p.wall
      IN  /\ p.skewAfter = S - T
          /\ Len(fetch[f].requests) = 2
          /\ fetch[f].requests[2].at = T + (S - T)
          /\ fetch[f].requests[2].token = TokenAt(T + (S - T))

\* A correction was made while the skew was not zero, and changed it.
C26_Witness ==
  \E f \in DOMAIN fetch :
    /\ Corrected(f)
    /\ fetch[f].responses[1].skewBefore # 0
    /\ fetch[f].responses[1].skewAfter # fetch[f].responses[1].skewBefore

\* The first response of call f was a 403 without a usable Date header.
DateUnusable(f) ==
  /\ Len(fetch[f].responses) >= 1
  /\ fetch[f].responses[1].status = 403
  /\ fetch[f].responses[1].date.kind # "date"

\* C27: a 403 whose Date header is absent, not a string or unparsable makes
\* the call fail with SkewAdjustmentError, leaves the skew as it was and is
\* followed by no second request.
C27_NoDateNoRetry ==
  \A f \in DOMAIN fetch :
    DateUnusable(f) =>
      /\ fetch[f].pc = "failed"
      /\ fetch[f].err = "SkewAdjustmentError"
      /\ fetch[f].responses[1].skewAfter = fetch[f].responses[1].skewBefore
      /\ Len(fetch[f].requests) = 1
      /\ Len(fetch[f].responses) = 1

\* A 403 with a Date header that does not parse was met while the skew was
\* not zero.
C27_Witness ==
  \E f \in DOMAIN fetch :
    /\ DateUnusable(f)
    /\ fetch[f].responses[1].date.kind = "garbage"
    /\ fetch[f].responses[1].skewBefore # 0

\* C28: a call makes at most two requests; the second only after a 403
\* whose skew correction succeeded, with a token made after the correction;
\* when the second request fails the call fails and makes no third.
C28_AtMostOneRetry ==
  \A f \in DOMAIN fetch :
    /\ Len(fetch[f].requests) <= 2
    /\ Len(fetch[f].responses) <= Len(fetch[f].requests)
    /\ Len(fetch[f].requests) = 2 =>
         /\ fetch[f].responses[1].status = 403
         /\ fetch[f].responses[1].date.kind = "date"
         /\ fetch[f].requests[2].skew = fetch[f].responses[1].skewAfter
         /\ fetch[f].requests[2].token =
              TokenAt(fetch[f].requests[2].wall + fetch[f].responses[1].skewAfter)
    /\ (Len(fetch[f].responses) = 2 /\ fetch[f].responses[2].status # 200) =>
         /\ fetch[f].pc = "failed"
         /\ fetch[f].err = "AxiosError"

\* A retry was made with another token than the first request's, and a
\* retry was rejected.
C28_Witness ==
  /\ \E f \in DOMAIN fetch :
       /\ Len(fetch[f].requests) = 2
       /\ fetch[f].requests[2].token # fetch[f].requests[1].token
  /\ \E f \in DOMAIN fetch :
       /\ Len(fetch[f].responses) = 2
       /\ fetch[f].responses[2].status = 403
       /\ fetch[f].pc = "failed"


\* ------------------------------------------------------------ C29 .. C30
\* The connections of cn that generator g has opened.
ConnsIn(cn, g) == {j \in DOMAIN cn : cn[j].gen = g}

\* C29: a failure of stream() is final.  A generator whose handshake was
\* refused has failed; the step that fails a generator, and every step
\* after it, yields no event and opens no connection, so no connection
\* exists for a chunk after the failing one; a failed generator stays
\* failed and never ends normally.
C29_FailureIsFinal ==
  [][\A g \in Gens :
       /\ (\E j \in ConnsIn(conns', g) :
             conns'[j].socket = "closed" /\ conns'[j].sent = <<>>)
          => gen'[g].pc = "failed"
       /\ gen'[g].pc = "failed" =>
            /\ out'[g] = out[g]
            /\ ConnsIn(conns', g) = ConnsIn(conns, g)
            /\ \A j \in ConnsIn(conns', g) : conns'[j].chunk <= gen'[g].chunk
       /\ gen[g].pc = "failed" => gen'[g] = gen[g]]_vars

\* A stream failed at its first chunk of two after it had yielded events.
C29_Witness ==
  \E g \in Gens :
    /\ gen[g].pc = "failed"
    /\ gen[g].chunk < Len(texts)
    /\ Len(out[g]) > 0

\* The messages socket j has emitted, in order of arrival.
ArrivedOn(j) ==
  LET a == SelectSeq(arrived, LAMBDA x : x.conn = j)
  IN  [i \in 1..Len(a) |-> a[i].msg]

IsPrefix(s, t) == Len(s) <= Len(t) /\ SubSeq(t, 1, Len(s)) = s

\* The type of the event a frame gives.
EventType(m) ==
  IF m.isBinary THEN "audio" ELSE parseMetadata(m.meta, 0).evt.type

\* C30: on every socket the messages the loop has taken are the first of
\* those that arrived, in arrival order, each once, and while the loop runs
\* the others wait in the queue in arrival order; the events of the chunk
\* are those of the frames taken, in the order of the frames; and a loop
\* that ended because the socket closed has taken every message that
\* arrived.
C30_InArrivalOrder ==
  \A j \in DOMAIN conns :
    LET g == conns[j].gen
        r == conns[j].recv
        e == EventsOf(g, conns[j].chunk)
        f == SelectSeq(r, Emits)
    IN  /\ IsPrefix(r, ArrivedOn(j))
        /\ (gen[g].ws = j /\ Live(g) /\ gen[g].pc # "connecting")
             => ArrivedOn(j) = r \o gen[g].queue
        /\ Len(e) = Len(f)
        /\ \A i \in 1..Len(e) :
             /\ e[i].type = EventType(f[i])
             /\ f[i].isBinary => e[i].data = f[i].dataLen
        /\ conns[j].endedBy = "closed" => r = ArrivedOn(j)

\* A loop ended by the close of its socket after it had taken three
\* messages or more that gave events of different types.
C30_Witness ==
  \E j \in DOMAIN conns :
    /\ conns[j].endedBy = "closed"
    /\ Len(conns[j].recv) >= 3
    /\ LET e == EventsOf(conns[j].gen, conns[j].chunk)
       IN  \E a, b \in 1..Len(e) : e[a].type # e[b].type

\* ------------------------------------------------------------ C31 .. C33
\* C31: while a chunk's receive loop runs, also while the generator is
\* suspended at a yield, at most one message that has arrived waits to be
\* processed.
C31_AtMostOnePending ==
  \A g \in Gens : Live(g) => Len(gen[g].queue) <= 1

\* C32: a connection has sent nothing, or the speech.config request and
\* then the ssml request with the text of its chunk; and a connection on
\* which a message has arrived at the handler or been processed has sent
\* both.
C32_RequestsBeforeFrames ==
  \A j \in DOMAIN conns :
    /\ \/ conns[j].sent = <<>>
       \/ /\ Len(conns[j].sent) = 2
          /\ conns[j].sent[1].path = "speech.config"
          /\ conns[j].sent[2].path = "ssml"
          /\ conns[j].sent[2].text = texts[conns[j].chunk]
    /\ (conns[j].recv # <<>> \/ ArrivedOn(j) # <<>>) => Len(conns[j].sent) = 2

\* The connection of the second chunk has processed a frame.
C32_Witness ==
  \E j \in DOMAIN conns : conns[j].chunk = 2 /\ conns[j].recv # <<>>

\* C33: once a generator has ended (returned, failed or been abandoned)
\* none of its sockets is open or connecting, and at any time at most one
\* socket of a generator is open or connecting.
C33_SocketsClosed ==
  \A g \in Gens :
    LET open == {j \in ConnsOf(g) : conns[j].socket \in {"open", "connecting"}}
    IN  /\ Cardinality(open) <= 1
        /\ gen[g].pc \in {"done", "failed", "returned"} => open = {}

\* ------------------------------------------------------------ C34 .. C36
\* Every character of the text, and every entity reference (an ampersand
\* up to the next semicolon), has at most n bytes.
EveryPartFits(text, n) ==
  /\ \A i \in 1..Len(text) : ~IsContinuation(text[i]) => Need(text[i]) + 1 <= n
  /\ \A a \in 1..Len(text) :
       text[a] = 38 =>
         \A b \in a + 1..Len(text) :
           (text[b] = 59 /\ \A c \in a + 1..b - 1 : text[c] # 59)
             => b - a + 1 <= n

\* C34: a call with a positive byteLength in which every character and
\* every entity reference fits does not fail.
C34_FailsOnlyWhenTooSmall ==
  (seg.pc = "failed" /\ seg.byteLength > 0)
    => ~EveryPartFits(seg.text, seg.byteLength)

\* The messages the loop on socket j takes in this step.
Taken(j) ==
  IF j \in DOMAIN conns
    THEN SubSeq(conns'[j].recv, Len(conns[j].recv) + 1, Len(conns'[j].recv))
    ELSE conns'[j].recv

\* A text frame the loop passes over: turn.start, response, a path it does
\* not know or no path.
IsIgnored(m) ==
  ~m.isBinary /\ m.path \notin {"audio.metadata", "turn.end"}

\* C35: offsetCompensation changes only in a step that processes a
\* turn.end frame, and lastDurationOffset only in the step that follows the
\* handing over of a boundary event; a step in which the loop takes only
\* turn.start, response, unknown-path or pathless text frames emits no
\* event and fails the stream only when the socket has closed without
\* audio; a step whose last frame taken is an audio frame emits its audio
\* event and leaves offsetCompensation as it was.
C35_IgnoredFramesNoEffect ==
  [][\A j \in DOMAIN conns' :
       LET t == Taken(j)
           g == conns'[j].gen
       IN  /\ state'.offsetCompensation # state.offsetCompensation
                => \E i \in DOMAIN conns' :
                     /\ Taken(i) # <<>>
                     /\ LastOf(Taken(i)) = TextFrame("turn.end", NoMeta)
           /\ state'.lastDurationOffset # state.lastDurationOffset
                => \E h \in Gens : gen[h].pc = "yielded" /\ IsBoundary(gen[h].pending)
           /\ (t # <<>> /\ \A i \in 1..Len(t) : IsIgnored(t[i]))
                => /\ out' = out
                   /\ state'.offsetCompensation = state.offsetCompensation
                   /\ gen'[g].pc = "failed"
                        => gen'[g].err = "NoAudioReceived" /\ gen[g].closed
           /\ (t # <<>> /\ LastOf(t) = AudioFrame)
                => /\ state'.offsetCompensation = state.offsetCompensation
                   /\ out'[g] = Append(out[g], AudioEventOf(AudioFrame, conns'[j].chunk))
                   /\ gen'[g].pc # "failed"]_vars

\* The loop has taken a frame with an unknown or no path, a response or
\* turn.start frame and an audio frame, and the stream goes on.
C35_Witness ==
  \E j \in DOMAIN conns :
    /\ \E i \in 1..Len(conns[j].recv) : conns[j].recv[i].path \in {"other", "none"}
    /\ \E i \in 1..Len(conns[j].recv) : conns[j].recv[i].path \in {"response", "turn.start"}
    /\ \E i \in 1..Len(conns[j].recv) : conns[j].recv[i] = AudioFrame
    /\ gen[conns[j].gen].pc \in {"yielded", "awaitMsg"}

C37_UnescapeInvertsEscape ==
  xml.pc = "unescaped" => xml.result = xml.text

\* The corrections that did not throw, in call order.
Applied == SelectSeq(corrections, LAMBDA c : ~c.threw)

\* C38: after any sequence of corrections the skew is (server time - local
\* time) of the last correction that was applied, and 0 when none was.
C38_LastCorrectionWins ==
  clockSkewSeconds =
    IF Applied = <<>> THEN 0
    ELSE LastOf(Applied).date.value - LastOf(Applied).local

\* Three corrections were applied, the last two while the skew was not
\* zero, and the skew is not the sum of their differences.
C38_Witness ==
  /\ Len(Applied) = 3
  /\ Applied[2].skewBefore # 0
  /\ Applied[3].skewBefore # 0
  /\ clockSkewSeconds #
       (Applied[1].date.value - Applied[1].local)
         + (Applied[2].date.value - Applied[2].local)
         + (Applied[3].date.value - Applied[3].local)

\* ------------------------------------------------------------ C39 .. C40
\* The calls of feed that did not throw.
Accepted == SelectSeq(subMaker.fed, LAMBDA f : ~f.threw)

\* C39: a call of feed throws exactly when its event is an audio event, or
\* a boundary event of another type than the first event accepted; a call
\* that throws leaves the cues as they were; and the cues are those of the
\* accepted events that carry offset, duration and text, in feed order,
\* numbered from 1.
C39_OneBoundaryTypeOnly ==
  /\ \A i \in 1..Len(subMaker.fed) :
       LET f == subMaker.fed[i]
           earlier == SelectSeq(SubSeq(subMaker.fed, 1, i - 1), LAMBDA h : ~h.threw)
       IN  /\ f.threw <=>
                \/ f.msg.type = "audio"
                \/ earlier # <<>> /\ earlier[1].msg.type # f.msg.type
           /\ f.threw => f.after = f.before
  /\ LET made == SelectSeq(Accepted, LAMBDA f : f.msg.complete)
     IN  /\ Len(subMaker.cues) = Len(made)
         /\ \A n \in 1..Len(subMaker.cues) :
              /\ subMaker.cues[n].index = n
              /\ subMaker.cues[n].content = made[n].msg.text
              /\ subMaker.cues[n].start * 10000 = made[n].msg.offset

\* Two cues were made, then a boundary event of the other type and an audio
\* event were refused.
C39_Witness ==
  /\ Len(subMaker.cues) = 2
  /\ subMaker.cues[1].start # subMaker.cues[2].start
  /\ Len(subMaker.fed) = 4
  /\ subMaker.fed[3].threw /\ subMaker.fed[3].msg.type # "audio"
  /\ subMaker.fed[4].threw /\ subMaker.fed[4].msg.type = "audio"

\* C40: the audio stream of a request that was sent has been ended only by
\* a turn.end with its own request id or by the close of the connection it
\* was sent on.
C40_OwnTurnEndOrOwnClose ==
  \A r \in DOMAIN tts.streams :
    (tts.streams[r].ended /\ tts.streams[r].pc = "sent") =>
      \/ /\ tts.streams[r].by.kind = "turn.end"
         /\ tts.streams[r].by.requestId = r
      \/ /\ tts.streams[r].by.kind = "close"
         /\ tts.streams[r].by.conn = tts.streams[r].conn

====
